---------------------------- MODULE Spec2Model ----------------------------
(***************************************************************************)
(* Model of the K197Control library: the boolFifo bit queue, the gemini    *)
(* bit protocol (GeminiProtocol, two peers wired back to back) and the     *)
(* gemini frame layer (GeminiFrame).                                       *)
(*                                                                         *)
(* Time is the value of micros(), a 32 bit counter shared by both peers.   *)
(* update() is one step, except where it busy-waits in                     *)
(* delayMicroseconds(writePulseMicros) with the output pin HIGH: the other *)
(* peer runs during that wait, so the step is split at the wait (pc).      *)
(* The interrupt handler only sets inputEdgeDetected and update() reads    *)
(* and clears that flag inside ATOMIC_BLOCKs only, so a handler running    *)
(* anywhere inside update() is a handler running before or after it.       *)
(***************************************************************************)
EXTENDS Integers, Sequences, FiniteSets, TLC

\* ------------------------------------------------------------------------
\* Program constants
\* ------------------------------------------------------------------------
FIFO_SIZE == 64

\* unsigned long on the AVR targets of the library is 32 bits wide; a value
\* is kept as its two 16 bit halves <<high, low>>
HALF == 65536

\* ------------------------------------------------------------------------
\* Bounds of the model
\* ------------------------------------------------------------------------
\* boolFifo driver: number of accepted pushes, and period of the bit pattern
MaxPushes == 67
SeedBits == 3

\* timing of the two peers, in ticks of the clock: the pulse width, by how
\* much the read (setup) delay exceeds it, and the write (hold) delay
writePulseMicros == 1
SetupMargin == 1
writeDelayMicros == 1
handshakeTimeoutMicros == 1

\* each peer calls update() at least once every MaxLag ticks
MaxLag == 1

\* the clock of the bit level specification stops after MaxTime ticks, the
\* clock of the initiator mode specification after MaxTimeModes ticks
MaxTime == 19
MaxTimeModes == 6

\* bits the callers of the bit level specification may send, in all
MaxSend == 3

\* frame level: longest frame buffer, most zero bits sent before a frame,
\* and most zero bits of an empty frame
MaxFrameLen == 2
MaxSync == 1
MaxEmptySync == 9

\* calls of send() and sendFrame() on a FIFO of any occupancy: most bytes in
\* a frame (nine bits each, so that the longest frame exceeds the FIFO)
MaxSendLen == 8

\* two sessions: longest frame buffer of the receiver, and calls its caller
\* makes besides getFrame()
MaxHeldLen == 2
MaxCalls == 2

\* micros() when the caller of A sends a second frame, later than the end
\* of any first session
SecondStart == 512

\* a peer that stalls: bits the other peer has to send
StallBits == 2

\* outbound liveness: bits the caller of the initiator sends
LiveBits == 2

\* blocking receiveByte(): by how many bits the peer may stay short of the
\* eight bits of a byte
MaxShort == 1

\* control frames: calls of execute(), and single bits the caller has
\* queued with send(bool) before
MaxExecute == 2
MaxRaw == 1

\* overrun: calls of resetFrame() while the sender sends more sub-frames
\* than the frame buffer of the receiver holds
MaxResets == 1

VARIABLES
  fifo,       \* boolFifo under test (fifo specification)
  seed,       \* bit pattern offered to the boolFifo under test
  nPushed,    \* pushes accepted by the boolFifo under test
  nPulled,    \* pulls that removed a bit from the boolFifo under test
  lastOp,     \* last call on the boolFifo under test
  lastRet,    \* value returned by that call
  refused,    \* a push on the boolFifo under test was refused
  gemini,     \* per peer: the GeminiFrame object (with its GeminiProtocol base)
  inputEdgeDetected,  \* per peer: the flag set by risingEdgeInterrupt()
  intFlag,    \* per peer: a rising edge on the input pin awaits its handler
  outputPin,  \* per peer: level of the output pin (the other peer's input)
  pc,         \* per peer: "loop", or the delayMicroseconds() update() is in
  currentTime, \* per peer: currentTime of the update() that is in a pulse
  since,      \* per peer: ticks since update() was entered last
  now,        \* micros()
  t0,         \* micros() at start
  sampled,    \* per peer: number of bits sampled with fast_read()
  app         \* the callers: what they sent and what they got

fifoVars == <<fifo, seed, nPushed, nPulled, lastOp, lastRet, refused>>

geminiVars == <<gemini, inputEdgeDetected, intFlag, outputPin, pc,
                currentTime, since, now, t0, sampled, app>>

vars == <<fifo, seed, nPushed, nPulled, lastOp, lastRet, refused,
          gemini, inputEdgeDetected, intFlag, outputPin, pc,
          currentTime, since, now, t0, sampled, app>>

\* ------------------------------------------------------------------------
\* unsigned long (32 bit) arithmetic on <<high, low>> halves
\* ------------------------------------------------------------------------
\* the unsigned long with value n, 0 <= n < 2^31
UL(n) == <<n \div HALF, n % HALF>>

\* a + n modulo 2^32, 0 <= n < 2^31
ULAdd(a, n) ==
  LET lo == a[2] + (n % HALF)
      hi == a[1] + (n \div HALF) + (lo \div HALF)
  IN <<hi % HALF, lo % HALF>>

\* a - b modulo 2^32
ULSub(a, b) ==
  LET lo == a[2] - b[2]
      hi == a[1] - b[1] - (IF lo < 0 THEN 1 ELSE 0)
  IN <<(hi + HALF) % HALF, (lo + HALF) % HALF>>

\* a >= b as unsigned values
ULGe(a, b) == (a[1] > b[1]) \/ (a[1] = b[1] /\ a[2] >= b[2])

\* a deadline test written as currentTime >= lastBitReadTime + duration
ElapsedGeSum(cur, last, duration) == ULGe(cur, ULAdd(last, duration))

\* currentTime - lastBitReadTime >= duration, as the code computes it
ElapsedGe(cur, last, duration) == ULGe(ULSub(cur, last), UL(duration))

\* ------------------------------------------------------------------------
\* boolFifo
\* ------------------------------------------------------------------------
\* boolFifo::boolFifo(): head, tail and count are 0. The buffer array has no
\* initialiser; no slot is read before push() wrote it (count guards pull).
boolFifo ==
  [buffer |-> [i \in 0..(FIFO_SIZE - 1) |-> FALSE],
   head |-> 0, tail |-> 0, count |-> 0]

\* an index increment that forgets the wrap-around
NextIndexNoWrap(i) == i + 1

\* next index in the circular buffer
NextIndex(i) == (i + 1) % FIFO_SIZE

full(f) == f.count = FIFO_SIZE

empty(f) == f.count = 0

size(f) == f.count

\* a push that overwrites the oldest bit when the buffer is full
pushOverwrite(f, value) ==
  IF f.count >= FIFO_SIZE
    THEN [f |-> [f EXCEPT !.buffer[f.tail] = value,
                          !.tail = (f.tail + 1) % FIFO_SIZE,
                          !.head = (f.head + 1) % FIFO_SIZE],
          ret |-> TRUE]
    ELSE [f |-> [f EXCEPT !.buffer[f.tail] = value,
                          !.tail = (f.tail + 1) % FIFO_SIZE,
                          !.count = f.count + 1],
          ret |-> TRUE]

\* boolFifo::push: the FIFO after the call and the value returned
push(f, value) ==
  IF f.count >= FIFO_SIZE
    THEN [f |-> f, ret |-> FALSE]
    ELSE [f |-> [f EXCEPT !.buffer[f.tail] = value,
                          !.tail = NextIndex(f.tail),
                          !.count = f.count + 1],
          ret |-> TRUE]

\* a pull that returns the slot after the head
pullAfterHead(f) ==
  IF f.count <= 0
    THEN [f |-> f, ret |-> FALSE]
    ELSE [f |-> [f EXCEPT !.head = (f.head + 1) % FIFO_SIZE,
                          !.count = f.count - 1],
          ret |-> f.buffer[(f.head + 1) % FIFO_SIZE]]

\* boolFifo::pull: the FIFO after the call and the value returned
pull(f) ==
  IF f.count <= 0
    THEN [f |-> f, ret |-> FALSE]
    ELSE [f |-> [f EXCEPT !.head = NextIndex(f.head),
                          !.count = f.count - 1],
          ret |-> f.buffer[f.head]]

\* the stored bits, oldest first
Contents(f) == [i \in 1..f.count |-> f.buffer[(f.head + i - 1) % FIFO_SIZE]]

Pow2(n) == 2 ^ n

\* ------------------------------------------------------------------------
\* The two peers and their configuration
\* ------------------------------------------------------------------------
Peers == {"A", "B"}

Other(p) == IF p = "A" THEN "B" ELSE "A"

\* readDelayMicros (the setup time) is longer than the pulse (README, Timing)
readDelayMicros == writePulseMicros + SetupMargin

\* frameTimeout (gemini.h, set with setFrameTimeout): configured longer than
\* the longest gap between two bits of a session when both peers call
\* update() at least every MaxLag ticks
frameTimeout == 4 * MaxLag + writeDelayMicros + readDelayMicros

\* ------------------------------------------------------------------------
\* GeminiProtocol: queues
\* ------------------------------------------------------------------------
\* GeminiProtocol::send(bool)
sendBit(f, bit) ==
  IF full(f) THEN [f |-> f, ret |-> FALSE]
             ELSE [f |-> push(f, bit).f, ret |-> TRUE]

\* the bits of data counted from the other end
BitOfMirrored(data, i) == (data \div (2 ^ (7 - i))) % 2 = 1

\* bit i of data: (data >> i) & 1
BitOf(data, i) == (data \div Pow2(i)) % 2 = 1

\* GeminiProtocol::send(uint8_t): the loop from bit i down to bit 0
RECURSIVE sendLoop(_, _, _)
sendLoop(f, data, i) ==
  IF i < 0 THEN [f |-> f, ret |-> TRUE]
  ELSE LET r == sendBit(f, BitOf(data, i))
       IN IF ~r.ret THEN [f |-> r.f, ret |-> FALSE]
                    ELSE sendLoop(r.f, data, i - 1)

\* a send(uint8_t) that queues all eight bits or none
sendAllOrNothing(f, data) ==
  IF FIFO_SIZE - f.count < 8 THEN [f |-> f, ret |-> FALSE]
                             ELSE sendLoop(f, data, 7)

send(f, data) == sendLoop(f, data, 7)

hasData(g) == ~empty(g.inputBuffer)

\* a hasData(n) that is content with one bit less
hasDataAlmost(g, n) == size(g.inputBuffer) >= n - 1

hasDataN(g, n) == size(g.inputBuffer) >= n

\* GeminiProtocol::receive()
receive(f) == pull(f)

\* the loop of receiveByte from bit i down to bit 0:
\* receivedByte |= (bitValue << i)
RECURSIVE receiveLoop(_, _, _)
receiveLoop(f, i, receivedByte) ==
  IF i < 0 THEN [f |-> f, ret |-> receivedByte]
  ELSE LET r == pull(f)
       IN receiveLoop(r.f, i - 1,
                      receivedByte + (IF r.ret THEN Pow2(i) ELSE 0))

\* a receiveByte(false) that does not look at hasData(8)
receiveByteUnchecked(f) == receiveLoop(f, 7, 0)

\* GeminiProtocol::receiveByte(false), and receiveByte(true) once
\* hasData(8) holds
receiveByte(f) ==
  IF ~(size(f) >= 8) THEN [f |-> f, ret |-> 0]
                     ELSE receiveLoop(f, 7, 0)

\* a loop that leaves the bits in the FIFO
DrainNone(f) == f

\* the loops while (hasData()) receive();
RECURSIVE Drain(_)
Drain(f) == IF empty(f) THEN f ELSE Drain(pull(f).f)

\* ------------------------------------------------------------------------
\* GeminiFrame object (GeminiProtocol is its base class)
\* ------------------------------------------------------------------------
\* a null pointer to a frame buffer; a buffer is the tuple of its bytes
NULL == <<>>

\* the object after GeminiFrame::begin(): no frame buffer is bound
begin(canInit) ==
  [state |-> "IDLE",
   isInitiator |-> FALSE,
   canBeInitiator |-> canInit,
   frameEndDetected |-> TRUE,
   lastBitReadTime |-> UL(0),
   frameTimeout |-> frameTimeout,
   inputBuffer |-> boolFifo,
   outputBuffer |-> boolFifo,
   frameState |-> "WAIT_FRAME_START",
   pInputData |-> NULL,
   pInputData_len |-> 0,
   byte_counter |-> 0,
   start_bit |-> FALSE,
   frameTimeoutCounter |-> 0]

\* GeminiProtocol::setFrameTimeout(newValue)
setFrameTimeout(g, newValue) == [g EXCEPT !.frameTimeout = newValue]

\* GeminiFrame::setInputBuffer(pdata, nbytes), as begin(pdata, nbytes) calls
\* it; pdata is the content of the caller's array
setInputBuffer(g, pdata, nbytes) ==
  [g EXCEPT !.pInputData = pdata, !.pInputData_len = nbytes]

\* pInputData != NULL
hasInputBuffer(g) == g.pInputData /= NULL

\* ------------------------------------------------------------------------
\* GeminiProtocol::update()
\* ------------------------------------------------------------------------
readDue(g, cur) == ElapsedGe(cur, g.lastBitReadTime, readDelayMicros)

writeDue(g, cur) == ElapsedGe(cur, g.lastBitReadTime, writeDelayMicros)

frameTimeoutDue(g, cur) == ElapsedGe(cur, g.lastBitReadTime, g.frameTimeout)

\* State::IDLE, the ATOMIC_BLOCK when inputEdgeDetected is set
idleEdge(g, cur) ==
  [g EXCEPT !.isInitiator = FALSE,
            !.frameEndDetected = FALSE,
            !.state = "BIT_READ_START",
            !.lastBitReadTime = cur]

\* a test that starts a session whether or not a frame is in flight (the
\* test of earlier versions of the library)
canInitiateInFrame(g) ==
  g.canBeInitiator /\ g.outputBuffer.count > 0

\* State::IDLE, the test that starts a session
canInitiate(g) ==
  g.frameEndDetected /\ g.canBeInitiator /\ size(g.outputBuffer) > 0

\* an IDLE without the frame timeout test
idleTimeoutNever(g, cur) == g

\* State::IDLE, the frame timeout test after the ATOMIC_BLOCK
idleTimeout(g, cur) ==
  IF ~g.frameEndDetected /\ frameTimeoutDue(g, cur)
    THEN [g EXCEPT !.frameEndDetected = TRUE]
    ELSE g

\* an IDLE that starts a session before it looks at the edge flag
updateIdleInitiateFirst(g, edge, pin, cur) ==
  IF canInitiate(g)
    THEN [g |-> [g EXCEPT !.isInitiator = TRUE], edge |-> edge,
          pin |-> TRUE, pc |-> "PULSE_IDLE"]
    ELSE LET g1 == IF edge THEN idleEdge(g, cur) ELSE g
         IN [g |-> idleTimeout(g1, cur), edge |-> FALSE,
             pin |-> pin, pc |-> "loop"]

\* State::IDLE. The break in the ATOMIC_BLOCK (a for loop) leaves that block
\* only, and the tests after the block run on the updated object.
\* Result: the object, the edge flag, the output pin level and the
\* delayMicroseconds() update() is in ("loop": none)
updateIdle(g, edge, pin, cur) ==
  LET g1 == IF edge THEN idleEdge(g, cur) ELSE g
  IN IF canInitiate(g1)
       THEN [g |-> [g1 EXCEPT !.isInitiator = TRUE], edge |-> FALSE,
             pin |-> TRUE, pc |-> "PULSE_IDLE"]
       ELSE [g |-> idleTimeout(g1, cur), edge |-> FALSE,
             pin |-> pin, pc |-> "loop"]

\* a BIT_READ_START in which the initiator too acknowledges the last bit
updateReadStartAckAlways(g, edge, pin, cur, bitValue) ==
  IF ~ElapsedGe(cur, g.lastBitReadTime, readDelayMicros)
    THEN [g |-> g, edge |-> edge, pin |-> pin, pc |-> "loop"]
    ELSE LET g1 == [g EXCEPT !.inputBuffer = push(@, bitValue).f]
         IN IF g1.outputBuffer.count = 0
              THEN [g |-> g1, edge |-> edge, pin |-> TRUE,
                    pc |-> "PULSE_ACK"]
              ELSE [g |-> g1, edge |-> edge, pin |-> TRUE,
                    pc |-> "PULSE_DATA"]

\* a BIT_READ_START in which any peer with nothing to send ends the session
updateReadStartStopOnEmpty(g, edge, pin, cur, bitValue) ==
  IF ~ElapsedGe(cur, g.lastBitReadTime, readDelayMicros)
    THEN [g |-> g, edge |-> edge, pin |-> pin, pc |-> "loop"]
    ELSE LET g1 == [g EXCEPT !.inputBuffer = push(@, bitValue).f]
         IN IF g1.outputBuffer.count = 0
              THEN [g |-> [g1 EXCEPT !.isInitiator = FALSE,
                                     !.state = "IDLE",
                                     !.lastBitReadTime = cur],
                    edge |-> FALSE, pin |-> FALSE, pc |-> "loop"]
              ELSE [g |-> g1, edge |-> edge, pin |-> TRUE,
                    pc |-> "PULSE_DATA"]

\* State::BIT_READ_START; bitValue is fast_read()
updateReadStart(g, edge, pin, cur, bitValue) ==
  IF ~readDue(g, cur)
    THEN [g |-> g, edge |-> edge, pin |-> pin, pc |-> "loop"]
    ELSE LET g1 == [g EXCEPT !.inputBuffer = push(@, bitValue).f]
         IN IF empty(g1.outputBuffer)
              THEN IF g1.isInitiator
                     THEN [g |-> [g1 EXCEPT !.isInitiator = FALSE,
                                            !.state = "IDLE",
                                            !.lastBitReadTime = cur],
                           edge |-> FALSE, pin |-> FALSE, pc |-> "loop"]
                     ELSE [g |-> g1, edge |-> edge, pin |-> TRUE,
                           pc |-> "PULSE_ACK"]
              ELSE [g |-> g1, edge |-> edge, pin |-> TRUE,
                    pc |-> "PULSE_DATA"]

\* a BIT_WRITE_WAIT_ACK that leaves the edge flag set
updateWaitAckKeepEdge(g, edge, pin, cur) ==
  IF edge
    THEN [g |-> [g EXCEPT !.state = "BIT_WRITE_END",
                          !.lastBitReadTime = cur],
          edge |-> edge, pin |-> pin, pc |-> "loop"]
    ELSE [g |-> g, edge |-> edge, pin |-> pin, pc |-> "loop"]

\* a BIT_WRITE_WAIT_ACK that gives up after handshakeTimeoutMicros
updateWaitAckTimeout(g, edge, pin, cur) ==
  IF edge
    THEN [g |-> [g EXCEPT !.state = "BIT_WRITE_END",
                          !.lastBitReadTime = cur],
          edge |-> FALSE, pin |-> pin, pc |-> "loop"]
    ELSE IF ElapsedGe(cur, g.lastBitReadTime, handshakeTimeoutMicros)
      THEN [g |-> [g EXCEPT !.state = "IDLE", !.isInitiator = FALSE],
            edge |-> edge, pin |-> FALSE, pc |-> "loop"]
      ELSE [g |-> g, edge |-> edge, pin |-> pin, pc |-> "loop"]

\* State::BIT_WRITE_WAIT_ACK
updateWaitAck(g, edge, pin, cur) ==
  IF edge
    THEN [g |-> [g EXCEPT !.state = "BIT_WRITE_END",
                          !.lastBitReadTime = cur],
          edge |-> FALSE, pin |-> pin, pc |-> "loop"]
    ELSE [g |-> g, edge |-> edge, pin |-> pin, pc |-> "loop"]

\* State::BIT_WRITE_END
updateWriteEnd(g, edge, pin, cur) ==
  IF writeDue(g, cur)
    THEN [g |-> [g EXCEPT !.state = "BIT_READ_START",
                          !.lastBitReadTime = cur],
          edge |-> edge, pin |-> FALSE, pc |-> "loop"]
    ELSE [g |-> g, edge |-> edge, pin |-> pin, pc |-> "loop"]

\* GeminiProtocol::update() up to its end or to its delayMicroseconds()
protocolUpdate(g, edge, pin, cur, bitValue) ==
  CASE g.state = "IDLE" -> updateIdle(g, edge, pin, cur)
    [] g.state = "BIT_READ_START" -> updateReadStart(g, edge, pin, cur, bitValue)
    [] g.state = "BIT_WRITE_WAIT_ACK" -> updateWaitAck(g, edge, pin, cur)
    [] g.state = "BIT_WRITE_END" -> updateWriteEnd(g, edge, pin, cur)

\* an update() that drives the next bit of a session and leaves it in the
\* output FIFO
protocolResumeKeepBit(g, where, cur) ==
  CASE where = "PULSE_IDLE" ->
         LET r == pull(g.outputBuffer)
         IN [g |-> [g EXCEPT !.outputBuffer = r.f,
                             !.frameEndDetected = FALSE,
                             !.state = "BIT_WRITE_WAIT_ACK",
                             !.lastBitReadTime = cur],
             pin |-> r.ret]
    [] where = "PULSE_ACK" ->
         [g |-> [g EXCEPT !.state = "IDLE", !.lastBitReadTime = cur],
          pin |-> FALSE]
    [] where = "PULSE_DATA" ->
         LET r == pull(g.outputBuffer)
         IN [g |-> [g EXCEPT !.state = "BIT_WRITE_WAIT_ACK",
                             !.lastBitReadTime = cur],
             pin |-> r.ret]

\* an update() that leaves the line HIGH after the acknowledge pulse
protocolResumeAckHigh(g, where, cur) ==
  CASE where = "PULSE_IDLE" ->
         LET r == pull(g.outputBuffer)
         IN [g |-> [g EXCEPT !.outputBuffer = r.f,
                             !.frameEndDetected = FALSE,
                             !.state = "BIT_WRITE_WAIT_ACK",
                             !.lastBitReadTime = cur],
             pin |-> r.ret]
    [] where = "PULSE_ACK" ->
         [g |-> [g EXCEPT !.state = "IDLE", !.lastBitReadTime = cur],
          pin |-> TRUE]
    [] where = "PULSE_DATA" ->
         LET r == pull(g.outputBuffer)
         IN [g |-> [g EXCEPT !.outputBuffer = r.f,
                             !.state = "BIT_WRITE_WAIT_ACK",
                             !.lastBitReadTime = cur],
             pin |-> r.ret]

\* GeminiProtocol::update() after delayMicroseconds(writePulseMicros); cur is
\* the currentTime the update() read when it was entered
protocolResume(g, where, cur) ==
  CASE where = "PULSE_IDLE" ->
         LET r == pull(g.outputBuffer)
         IN [g |-> [g EXCEPT !.outputBuffer = r.f,
                             !.frameEndDetected = FALSE,
                             !.state = "BIT_WRITE_WAIT_ACK",
                             !.lastBitReadTime = cur],
             pin |-> r.ret]
    [] where = "PULSE_ACK" ->
         [g |-> [g EXCEPT !.state = "IDLE", !.lastBitReadTime = cur],
          pin |-> FALSE]
    [] where = "PULSE_DATA" ->
         LET r == pull(g.outputBuffer)
         IN [g |-> [g EXCEPT !.outputBuffer = r.f,
                             !.state = "BIT_WRITE_WAIT_ACK",
                             !.lastBitReadTime = cur],
             pin |-> r.ret]

\* ------------------------------------------------------------------------
\* GeminiFrame
\* ------------------------------------------------------------------------
frameComplete(g) == g.byte_counter >= g.pInputData_len

\* a resetFrame() that also clears frameEndDetected
resetFrameClearEnd(g) ==
  [g EXCEPT !.byte_counter = 0, !.start_bit = FALSE,
            !.frameEndDetected = FALSE]

\* a resetFrame() that leaves start_bit as it is
resetFrameKeepStart(g) == [g EXCEPT !.byte_counter = 0]

resetFrame(g) == [g EXCEPT !.byte_counter = 0, !.start_bit = FALSE]

\* getFrame(): resetFrame(), and the caller reads the buffer
getFrame(g) == [g |-> resetFrame(g), ret |-> g.pInputData]

frameTimeoutDetected(g) == g.frameTimeoutCounter > 0

\* checkFrameTimeout(); t is micros()
checkFrameTimeout(g, t) == ElapsedGe(t, g.lastBitReadTime, g.frameTimeout)

frameStarted(g) == g.byte_counter > 0 \/ g.start_bit = TRUE

resetFrameTimeoutCounter(g) == [g EXCEPT !.frameTimeoutCounter = 0]

\* GeminiProtocol::begin() on an object in use, its input pin one that
\* supports interrupts
protocolBegin(g) == [g EXCEPT !.state = "IDLE", !.lastBitReadTime = UL(0)]

\* GeminiFrame::begin() on an object in use
frameBegin(g) ==
  [protocolBegin(g) EXCEPT !.pInputData = NULL,
                           !.pInputData_len = 0,
                           !.frameState = "WAIT_FRAME_START"]

\* a begin(pdata, nbytes) that looks at its arguments after begin()
beginFrameLateCheck(g, pdata, nbytes) ==
  IF nbytes = 0 \/ pdata = NULL
    THEN [g |-> frameBegin(g), ret |-> FALSE]
    ELSE [g |-> setInputBuffer(frameBegin(g), pdata, nbytes), ret |-> TRUE]

\* GeminiFrame::begin(pdata, nbytes) on an object in use
beginFrame(g, pdata, nbytes) ==
  IF nbytes = 0 \/ pdata = NULL
    THEN [g |-> g, ret |-> FALSE]
    ELSE [g |-> setInputBuffer(frameBegin(g), pdata, nbytes), ret |-> TRUE]

\* GeminiFrame::sendFrame: for each byte send(true) and send(byte); the
\* return values are not looked at
RECURSIVE sendFrameLoop(_, _, _)
sendFrameLoop(f, pdata, i) ==
  IF i > Len(pdata) THEN f
  ELSE sendFrameLoop(send(sendBit(f, TRUE).f, pdata[i]).f, pdata, i + 1)

\* a sendFrame that sends a start bit before the first byte only
RECURSIVE sendBytes(_, _, _)
sendBytes(f, pdata, i) ==
  IF i > Len(pdata) THEN f ELSE sendBytes(send(f, pdata[i]).f, pdata, i + 1)

sendFrameOneStart(f, pdata) == sendBytes(sendBit(f, TRUE).f, pdata, 1)

sendFrame(f, pdata) == sendFrameLoop(f, pdata, 1)

\* a handleFrameData() that does not clear start_bit after a byte
handleFrameDataKeepStart(g, t) ==
  IF frameComplete(g)
    THEN [g EXCEPT !.inputBuffer = Drain(@)]
  ELSE IF hasData(g)
    THEN IF g.start_bit
           THEN IF hasDataN(g, 8)
                  THEN LET r == receiveByte(g.inputBuffer)
                       IN [g EXCEPT !.inputBuffer = r.f,
                                    !.pInputData[g.byte_counter + 1] = r.ret,
                                    !.byte_counter = @ + 1]
                  ELSE g
           ELSE LET r == receive(g.inputBuffer)
                IN [g EXCEPT !.inputBuffer = r.f, !.start_bit = r.ret]
  ELSE IF frameStarted(g) /\ checkFrameTimeout(g, t)
    THEN resetFrame([g EXCEPT !.frameTimeoutCounter = @ + 1])
  ELSE g

\* a handleFrameData() that takes any bit for a start bit
handleFrameDataAnyStart(g, t) ==
  IF frameComplete(g)
    THEN [g EXCEPT !.inputBuffer = Drain(@)]
  ELSE IF hasData(g)
    THEN IF g.start_bit
           THEN IF hasDataN(g, 8)
                  THEN LET r == receiveByte(g.inputBuffer)
                       IN [g EXCEPT !.inputBuffer = r.f,
                                    !.pInputData[g.byte_counter + 1] = r.ret,
                                    !.byte_counter = @ + 1,
                                    !.start_bit = FALSE]
                  ELSE g
           ELSE LET r == receive(g.inputBuffer)
                IN [g EXCEPT !.inputBuffer = r.f, !.start_bit = TRUE]
  ELSE IF frameStarted(g) /\ checkFrameTimeout(g, t)
    THEN resetFrame([g EXCEPT !.frameTimeoutCounter = @ + 1])
  ELSE g

\* a handleFrameData() that does not look at frameComplete()
handleFrameDataNoComplete(g, t) ==
  IF hasData(g)
    THEN IF g.start_bit
           THEN IF hasDataN(g, 8)
                  THEN LET r == receiveByte(g.inputBuffer)
                       IN [g EXCEPT !.inputBuffer = r.f,
                                    !.pInputData =
                                       [i \in 1..(g.byte_counter + 1) |->
                                          IF i = g.byte_counter + 1 THEN r.ret
                                          ELSE IF i <= Len(@) THEN @[i]
                                          ELSE 0],
                                    !.byte_counter = @ + 1,
                                    !.start_bit = FALSE]
                  ELSE g
           ELSE LET r == receive(g.inputBuffer)
                IN [g EXCEPT !.inputBuffer = r.f, !.start_bit = r.ret]
  ELSE IF frameStarted(g) /\ checkFrameTimeout(g, t)
    THEN resetFrame([g EXCEPT !.frameTimeoutCounter = @ + 1])
  ELSE g

\* GeminiFrame::handleFrameData(); t is micros()
handleFrameData(g, t) ==
  IF frameComplete(g)
    THEN [g EXCEPT !.inputBuffer = Drain(@)]
  ELSE IF hasData(g)
    THEN IF g.start_bit
           THEN IF hasDataN(g, 8)
                  THEN LET r == receiveByte(g.inputBuffer)
                       IN [g EXCEPT !.inputBuffer = r.f,
                                    !.pInputData[g.byte_counter + 1] = r.ret,
                                    !.byte_counter = @ + 1,
                                    !.start_bit = FALSE]
                  ELSE g
           ELSE LET r == receive(g.inputBuffer)
                IN [g EXCEPT !.inputBuffer = r.f, !.start_bit = r.ret]
  ELSE IF frameStarted(g) /\ checkFrameTimeout(g, t)
    THEN resetFrame([g EXCEPT !.frameTimeoutCounter = @ + 1])
  ELSE g

\* an update() that keeps start_bit when a frame starts
frameUpdateHalfReset(g, t) ==
  CASE g.frameState = "WAIT_FRAME_START" ->
         LET g1 == IF hasData(g) /\ hasInputBuffer(g) /\ g.frameEndDetected
                     THEN [g EXCEPT !.inputBuffer = Drain(@)]
                     ELSE g
         IN IF ~g1.frameEndDetected
              THEN [g1 EXCEPT !.byte_counter = 0,
                              !.frameState = "WAIT_FRAME_DATA"]
              ELSE g1
    [] g.frameState = "WAIT_FRAME_DATA" ->
         LET g1 == IF hasData(g) /\ hasInputBuffer(g)
                     THEN handleFrameData(g, t)
                     ELSE g
         IN IF g1.frameEndDetected
              THEN [g1 EXCEPT !.frameState = "FRAME_END"]
              ELSE g1
    [] g.frameState = "FRAME_END" ->
         LET g1 == IF hasInputBuffer(g)
                     THEN [g EXCEPT !.inputBuffer = Drain(@)]
                     ELSE g
         IN IF g1.frameEndDetected
              THEN [g1 EXCEPT !.frameState = "WAIT_FRAME_START"]
              ELSE g1

\* an update() that keeps the bytes of the frame before when a frame starts
frameUpdateNoReset(g, t) ==
  CASE g.frameState = "WAIT_FRAME_START" ->
         LET g1 == IF hasData(g) /\ hasInputBuffer(g) /\ g.frameEndDetected
                     THEN [g EXCEPT !.inputBuffer = Drain(@)]
                     ELSE g
         IN IF ~g1.frameEndDetected
              THEN [g1 EXCEPT !.frameState = "WAIT_FRAME_DATA"]
              ELSE g1
    [] g.frameState = "WAIT_FRAME_DATA" ->
         LET g1 == IF hasData(g) /\ hasInputBuffer(g)
                     THEN handleFrameData(g, t)
                     ELSE g
         IN IF g1.frameEndDetected
              THEN [g1 EXCEPT !.frameState = "FRAME_END"]
              ELSE g1
    [] g.frameState = "FRAME_END" ->
         LET g1 == IF hasInputBuffer(g)
                     THEN [g EXCEPT !.inputBuffer = Drain(@)]
                     ELSE g
         IN IF g1.frameEndDetected
              THEN [g1 EXCEPT !.frameState = "WAIT_FRAME_START"]
              ELSE g1

\* an update() that goes from WAIT_FRAME_DATA back to WAIT_FRAME_START
frameUpdateSkipEnd(g, t) ==
  CASE g.frameState = "WAIT_FRAME_START" ->
         LET g1 == IF hasData(g) /\ hasInputBuffer(g) /\ g.frameEndDetected
                     THEN [g EXCEPT !.inputBuffer = Drain(@)]
                     ELSE g
         IN IF ~g1.frameEndDetected
              THEN [resetFrame(g1) EXCEPT !.frameState = "WAIT_FRAME_DATA"]
              ELSE g1
    [] g.frameState = "WAIT_FRAME_DATA" ->
         LET g1 == IF hasData(g) /\ hasInputBuffer(g)
                     THEN handleFrameData(g, t)
                     ELSE g
         IN IF g1.frameEndDetected
              THEN [g1 EXCEPT !.frameState = "WAIT_FRAME_START"]
              ELSE g1
    [] g.frameState = "FRAME_END" ->
         LET g1 == IF hasInputBuffer(g)
                     THEN [g EXCEPT !.inputBuffer = Drain(@)]
                     ELSE g
         IN IF g1.frameEndDetected
              THEN [g1 EXCEPT !.frameState = "WAIT_FRAME_START"]
              ELSE g1

\* an update() that leaves FRAME_END when frameEndDetected is clear
frameUpdateEndOnClear(g, t) ==
  CASE g.frameState = "WAIT_FRAME_START" ->
         LET g1 == IF hasData(g) /\ hasInputBuffer(g) /\ g.frameEndDetected
                     THEN [g EXCEPT !.inputBuffer = Drain(@)]
                     ELSE g
         IN IF ~g1.frameEndDetected
              THEN [resetFrame(g1) EXCEPT !.frameState = "WAIT_FRAME_DATA"]
              ELSE g1
    [] g.frameState = "WAIT_FRAME_DATA" ->
         LET g1 == IF hasData(g) /\ hasInputBuffer(g)
                     THEN handleFrameData(g, t)
                     ELSE g
         IN IF g1.frameEndDetected
              THEN [g1 EXCEPT !.frameState = "FRAME_END"]
              ELSE g1
    [] g.frameState = "FRAME_END" ->
         LET g1 == IF hasInputBuffer(g)
                     THEN [g EXCEPT !.inputBuffer = Drain(@)]
                     ELSE g
         IN IF ~g1.frameEndDetected
              THEN [g1 EXCEPT !.frameState = "WAIT_FRAME_START"]
              ELSE g1

\* an update() that handles the inbound bits without a frame buffer too
frameUpdateAnyBuffer(g, t) ==
  CASE g.frameState = "WAIT_FRAME_START" ->
         LET g1 == IF hasData(g) /\ g.frameEndDetected
                     THEN [g EXCEPT !.inputBuffer = Drain(@)]
                     ELSE g
         IN IF ~g1.frameEndDetected
              THEN [resetFrame(g1) EXCEPT !.frameState = "WAIT_FRAME_DATA"]
              ELSE g1
    [] g.frameState = "WAIT_FRAME_DATA" ->
         LET g1 == IF hasData(g) THEN handleFrameData(g, t) ELSE g
         IN IF g1.frameEndDetected
              THEN [g1 EXCEPT !.frameState = "FRAME_END"]
              ELSE g1
    [] g.frameState = "FRAME_END" ->
         LET g1 == [g EXCEPT !.inputBuffer = Drain(@)]
         IN IF g1.frameEndDetected
              THEN [g1 EXCEPT !.frameState = "WAIT_FRAME_START"]
              ELSE g1

\* GeminiFrame::update() after its call of GeminiProtocol::update()
frameUpdate(g, t) ==
  CASE g.frameState = "WAIT_FRAME_START" ->
         LET g1 == IF hasData(g) /\ hasInputBuffer(g) /\ g.frameEndDetected
                     THEN [g EXCEPT !.inputBuffer = Drain(@)]
                     ELSE g
         IN IF ~g1.frameEndDetected
              THEN [resetFrame(g1) EXCEPT !.frameState = "WAIT_FRAME_DATA"]
              ELSE g1
    [] g.frameState = "WAIT_FRAME_DATA" ->
         LET g1 == IF hasData(g) /\ hasInputBuffer(g)
                     THEN handleFrameData(g, t)
                     ELSE g
         IN IF g1.frameEndDetected
              THEN [g1 EXCEPT !.frameState = "FRAME_END"]
              ELSE g1
    [] g.frameState = "FRAME_END" ->
         LET g1 == IF hasInputBuffer(g)
                     THEN [g EXCEPT !.inputBuffer = Drain(@)]
                     ELSE g
         IN IF g1.frameEndDetected
              THEN [g1 EXCEPT !.frameState = "WAIT_FRAME_START"]
              ELSE g1

\* ------------------------------------------------------------------------
\* GeminiK197Control object (GeminiFrame is its base class). Its member
\* outputBuffer, the pointer to the control buffer, is controlBuffer here:
\* outputBuffer is the output FIFO of GeminiProtocol
\* ------------------------------------------------------------------------
\* the members GeminiK197Control adds, after setControlBuffer(pctl): the
\* content of the caller's K197control, NULL for a null pointer
k197Begin(g, pctl) == g @@ [controlBuffer |-> pctl, outputQueued |-> FALSE]

\* K197control::clear()
clear(ctl) == [i \in 1..Len(ctl) |-> 0]

\* GeminiK197Control::sendImmediately(), resetAfterSending = true
sendImmediately(g) ==
  IF g.controlBuffer = NULL THEN g
  ELSE [g EXCEPT !.outputBuffer = sendFrame(@, g.controlBuffer),
                 !.controlBuffer = clear(@)]

\* GeminiK197Control::execute()
execute(g) ==
  IF g.controlBuffer = NULL THEN g ELSE [g EXCEPT !.outputQueued = TRUE]

\* an update() that sends the control buffer whatever the output FIFO holds
controlUpdateAnyFifo(g) ==
  IF g.outputQueued /\ g.frameEndDetected
    THEN [sendImmediately(g) EXCEPT !.outputQueued = FALSE]
    ELSE g

\* GeminiK197Control::update() before its call of GeminiFrame::update()
controlUpdate(g) ==
  IF g.outputQueued /\ g.frameEndDetected /\ empty(g.outputBuffer)
    THEN [sendImmediately(g) EXCEPT !.outputQueued = FALSE]
    ELSE g

\* ------------------------------------------------------------------------
\* Steps of the two peers
\* ------------------------------------------------------------------------
\* the output pin of p goes to level; a rising edge raises the interrupt of
\* the other peer
risingEdge(p, level) == level /\ ~outputPin[p]

\* risingEdgeInterrupt() of peer p
risingEdgeInterrupt(p) ==
  /\ intFlag[p]
  /\ intFlag' = [intFlag EXCEPT ![p] = FALSE]
  /\ inputEdgeDetected' = [inputEdgeDetected EXCEPT ![p] = TRUE]
  /\ UNCHANGED <<gemini, outputPin, pc, currentTime, since, now, t0,
                 sampled, app, fifoVars>>

\* GeminiFrame::update() of peer p, to its end or to the delayMicroseconds()
\* of GeminiProtocol::update()
Update(p) ==
  /\ pc[p] = "loop"
  /\ since[p] >= 1
  /\ LET g == gemini[p]
         r == protocolUpdate(g, inputEdgeDetected[p], outputPin[p], now,
                             outputPin[Other(p)])
     IN /\ gemini' = [gemini EXCEPT ![p] =
                        IF r.pc = "loop" THEN frameUpdate(r.g, now) ELSE r.g]
        /\ inputEdgeDetected' = [inputEdgeDetected EXCEPT ![p] = r.edge]
        /\ outputPin' = [outputPin EXCEPT ![p] = r.pin]
        /\ intFlag' = IF risingEdge(p, r.pin)
                        THEN [intFlag EXCEPT ![Other(p)] = TRUE]
                        ELSE intFlag
        /\ pc' = [pc EXCEPT ![p] = r.pc]
        /\ currentTime' = [currentTime EXCEPT ![p] =
                             IF r.pc = "loop" THEN UL(0) ELSE now]
        /\ sampled' = [sampled EXCEPT ![p] =
                         IF g.state = "BIT_READ_START" /\ readDue(g, now)
                           THEN @ + 1 ELSE @]
  /\ since' = [since EXCEPT ![p] = 0]
  /\ UNCHANGED <<now, t0, app, fifoVars>>

\* GeminiFrame::update() of peer p, from the end of delayMicroseconds()
UpdateResume(p) ==
  /\ pc[p] /= "loop"
  /\ since[p] >= writePulseMicros
  /\ LET r == protocolResume(gemini[p], pc[p], currentTime[p])
     IN /\ gemini' = [gemini EXCEPT ![p] = frameUpdate(r.g, now)]
        /\ outputPin' = [outputPin EXCEPT ![p] = r.pin]
        /\ intFlag' = IF risingEdge(p, r.pin)
                        THEN [intFlag EXCEPT ![Other(p)] = TRUE]
                        ELSE intFlag
  /\ pc' = [pc EXCEPT ![p] = "loop"]
  /\ currentTime' = [currentTime EXCEPT ![p] = UL(0)]
  /\ since' = [since EXCEPT ![p] = 0]
  /\ UNCHANGED <<inputEdgeDetected, now, t0, sampled, app, fifoVars>>

\* ticks since the start
elapsed == ULSub(now, t0)[2]

\* both peers are Idle and saw the frame end, no edge is on its way and no
\* peer can start a session: nothing depends on the clock until a caller
\* sends something
Quiescent ==
  \A p \in Peers :
    /\ gemini[p].state = "IDLE"
    /\ gemini[p].frameEndDetected
    /\ gemini[p].frameState = "WAIT_FRAME_START"
    /\ ~canInitiate(gemini[p])
    /\ pc[p] = "loop"
    /\ ~intFlag[p]
    /\ ~inputEdgeDetected[p]

\* one tick of the clock. An interrupt handler runs within the tick of its
\* edge, delayMicroseconds() returns after writePulseMicros, and a peer
\* enters update() at most once in a tick and at least every app.lag ticks.
\* The time the peers spend quiescent is not counted.
Tick ==
  /\ elapsed < app.horizon
  /\ ~Quiescent
  /\ \A p \in Peers :
       /\ ~intFlag[p]
       /\ since[p] < (IF pc[p] = "loop" THEN app.lag ELSE writePulseMicros)
  /\ now' = ULAdd(now, 1)
  /\ since' = [p \in Peers |-> since[p] + 1]
  /\ UNCHANGED <<gemini, inputEdgeDetected, intFlag, outputPin, pc,
                 currentTime, t0, sampled, app, fifoVars>>

\* the caller of peer p, between two update(): send(bit)
Send(p, bit) ==
  /\ pc[p] = "loop"
  /\ app.budget > 0
  /\ gemini' = [gemini EXCEPT ![p].outputBuffer = sendBit(@, bit).f]
  /\ app' = [app EXCEPT !.budget = @ - 1]
  /\ UNCHANGED <<inputEdgeDetected, intFlag, outputPin, pc, currentTime,
                 since, now, t0, sampled, fifoVars>>

\* the caller of the initiator, between two update(): send(data) on the
\* empty outbound FIFO
SendByte(p, data) ==
  /\ pc[p] = "loop"
  /\ ~app.sent
  /\ gemini' = [gemini EXCEPT ![p].outputBuffer = send(@, data).f]
  /\ app' = [app EXCEPT !.tx = <<data>>, !.sent = TRUE]
  /\ UNCHANGED <<inputEdgeDetected, intFlag, outputPin, pc, currentTime,
                 since, now, t0, sampled, fifoVars>>

\* the caller of peer p: receiveByte() returns. Its loop
\* while (!hasData(8)) update() is the Update steps before this one
ReceiveByte(p) ==
  /\ pc[p] = "loop"
  /\ app.rx = -1
  /\ hasDataN(gemini[p], 8)
  /\ LET r == receiveByte(gemini[p].inputBuffer)
     IN /\ gemini' = [gemini EXCEPT ![p].inputBuffer = r.f]
        /\ app' = [app EXCEPT !.rx = r.ret]
  /\ UNCHANGED <<inputEdgeDetected, intFlag, outputPin, pc, currentTime,
                 since, now, t0, sampled, fifoVars>>

\* n times send(false)
RECURSIVE sendSync(_, _)
sendSync(f, n) == IF n = 0 THEN f ELSE sendSync(sendBit(f, FALSE).f, n - 1)

\* send(bit) for each bit of bits, from the i-th on
RECURSIVE sendBits(_, _, _)
sendBits(f, bits, i) ==
  IF i > Len(bits) THEN f ELSE sendBits(sendBit(f, bits[i]).f, bits, i + 1)

\* the caller of the sender, between two update(): the synchronization
\* bits, sendFrame() and the bits of a sub-frame cut short
SendFrame(p) ==
  /\ pc[p] = "loop"
  /\ ~app.sent
  /\ gemini' = [gemini EXCEPT ![p].outputBuffer =
                  sendBits(sendFrame(sendSync(@, app.sync), app.tx),
                           app.tail, 1)]
  /\ app' = [app EXCEPT !.sent = TRUE]
  /\ UNCHANGED <<inputEdgeDetected, intFlag, outputPin, pc, currentTime,
                 since, now, t0, sampled, fifoVars>>

\* the caller of the receiver, between two update(): it saw frameComplete()
\* and calls getFrame()
GetFrame(p) ==
  /\ pc[p] = "loop"
  /\ ~app.gotten
  /\ hasInputBuffer(gemini[p])
  /\ frameComplete(gemini[p])
  /\ LET r == getFrame(gemini[p])
     IN /\ gemini' = [gemini EXCEPT ![p] = r.g]
        /\ app' = [app EXCEPT !.got = r.ret, !.gotten = TRUE]
  /\ UNCHANGED <<inputEdgeDetected, intFlag, outputPin, pc, currentTime,
                 since, now, t0, sampled, fifoVars>>

\* the peers rest, both Idle with nothing to send, until micros() shows
\* SecondStart
Rest ==
  /\ Quiescent
  /\ app.sent
  /\ ~app.second
  /\ app.from2 = "A"
  /\ Len(app.tx) = Len(app.tx2)
  /\ \A p \in Peers : empty(gemini[p].outputBuffer)
  /\ ~ULGe(now, UL(SecondStart))
  /\ now' = UL(SecondStart)
  /\ UNCHANGED <<gemini, inputEdgeDetected, intFlag, outputPin, pc,
                 currentTime, since, t0, sampled, app, fifoVars>>

\* the caller of the sender of the second frame, between two update():
\* sendFrame(), by A as soon as it saw the end of a first frame that was
\* incomplete, and when micros() shows SecondStart after one that was
\* complete; by B at any time after it saw the end of the first frame
SendSecond(p) ==
  /\ pc[p] = "loop"
  /\ p = app.from2
  /\ app.sent
  /\ ~app.second
  /\ IF p = "A"
       THEN IF Len(app.tx) < Len(app.tx2)
              THEN gemini[p].frameState = "FRAME_END"
              ELSE now = UL(SecondStart)
       ELSE sampled[p] > 0
  /\ gemini[p].state = "IDLE"
  /\ gemini[p].frameEndDetected
  /\ empty(gemini[p].outputBuffer)
  /\ gemini' = [gemini EXCEPT ![p].outputBuffer = sendFrame(@, app.tx2)]
  /\ app' = [app EXCEPT !.second = TRUE, !.call = "sendFrame"]
  /\ UNCHANGED <<inputEdgeDetected, intFlag, outputPin, pc, currentTime,
                 since, now, t0, sampled, fifoVars>>

\* the caller of the receiver, between two update(): resetFrame()
ResetFrame(p) ==
  /\ pc[p] = "loop"
  /\ app.calls < MaxCalls
  /\ hasInputBuffer(gemini[p])
  /\ gemini' = [gemini EXCEPT ![p] = resetFrame(@)]
  /\ app' = [app EXCEPT !.calls = @ + 1, !.call = "resetFrame"]
  /\ UNCHANGED <<inputEdgeDetected, intFlag, outputPin, pc, currentTime,
                 since, now, t0, sampled, fifoVars>>

\* the caller of the receiver, between two update():
\* resetFrameTimeoutCounter()
ResetFrameTimeoutCounter(p) ==
  /\ pc[p] = "loop"
  /\ app.calls < MaxCalls
  /\ hasInputBuffer(gemini[p])
  /\ gemini' = [gemini EXCEPT ![p] = resetFrameTimeoutCounter(@)]
  /\ app' = [app EXCEPT !.calls = @ + 1,
                        !.call = "resetFrameTimeoutCounter"]
  /\ UNCHANGED <<inputEdgeDetected, intFlag, outputPin, pc, currentTime,
                 since, now, t0, sampled, fifoVars>>

\* the caller of the receiver, between two update(): begin(pdata, nbytes).
\* A begin() that goes through drives the output pin LOW
Begin(p, pdata, nbytes) ==
  /\ pc[p] = "loop"
  /\ app.calls < MaxCalls
  /\ hasInputBuffer(gemini[p])
  /\ LET r == beginFrame(gemini[p], pdata, nbytes)
     IN /\ gemini' = [gemini EXCEPT ![p] = r.g]
        /\ outputPin' = IF r.ret THEN [outputPin EXCEPT ![p] = FALSE]
                        ELSE outputPin
        /\ app' = [app EXCEPT !.calls = @ + 1, !.call = "begin",
                              !.ret = r.ret]
  /\ UNCHANGED <<inputEdgeDetected, intFlag, pc, currentTime, since, now,
                 t0, sampled, fifoVars>>

\* peer p stopped calling update()
Halted(p) == app.halted /\ p = "B"

\* B stops calling update(), for good: it hangs or is switched off
Halt ==
  /\ pc["B"] = "loop"
  /\ ~app.halted
  /\ app' = [app EXCEPT !.halted = TRUE]
  /\ UNCHANGED <<gemini, inputEdgeDetected, intFlag, outputPin, pc,
                 currentTime, since, now, t0, sampled, fifoVars>>

\* update() of a peer that still calls it
UpdateLive(p) == ~Halted(p) /\ Update(p)

\* one tick of the clock, as Tick, when a peer may have stopped calling
\* update()
StallTick ==
  /\ elapsed < app.horizon
  /\ ~Quiescent
  /\ \A p \in Peers :
       /\ ~intFlag[p]
       /\ \/ Halted(p)
          \/ since[p] < (IF pc[p] = "loop" THEN app.lag ELSE writePulseMicros)
  /\ now' = ULAdd(now, 1)
  /\ since' = [p \in Peers |-> IF Halted(p) THEN since[p] ELSE since[p] + 1]
  /\ UNCHANGED <<gemini, inputEdgeDetected, intFlag, outputPin, pc,
                 currentTime, t0, sampled, app, fifoVars>>

\* GeminiK197Control::update() of peer p, to its end or to the
\* delayMicroseconds() of GeminiProtocol::update()
ControlUpdate(p) ==
  /\ pc[p] = "loop"
  /\ since[p] >= 1
  /\ LET g == controlUpdate(gemini[p])
         r == protocolUpdate(g, inputEdgeDetected[p], outputPin[p], now,
                             outputPin[Other(p)])
     IN /\ gemini' = [gemini EXCEPT ![p] =
                        IF r.pc = "loop" THEN frameUpdate(r.g, now) ELSE r.g]
        /\ inputEdgeDetected' = [inputEdgeDetected EXCEPT ![p] = r.edge]
        /\ outputPin' = [outputPin EXCEPT ![p] = r.pin]
        /\ intFlag' = IF risingEdge(p, r.pin)
                        THEN [intFlag EXCEPT ![Other(p)] = TRUE]
                        ELSE intFlag
        /\ pc' = [pc EXCEPT ![p] = r.pc]
        /\ currentTime' = [currentTime EXCEPT ![p] =
                             IF r.pc = "loop" THEN UL(0) ELSE now]
        /\ sampled' = [sampled EXCEPT ![p] =
                         IF g.state = "BIT_READ_START" /\ readDue(g, now)
                           THEN @ + 1 ELSE @]
  /\ since' = [since EXCEPT ![p] = 0]
  /\ UNCHANGED <<now, t0, app, fifoVars>>

\* the caller of peer p, between two update(): execute()
Execute(p) ==
  /\ pc[p] = "loop"
  /\ app.calls < MaxExecute
  /\ gemini' = [gemini EXCEPT ![p] = execute(@)]
  /\ app' = [app EXCEPT !.calls = @ + 1, !.call = "execute"]
  /\ UNCHANGED <<inputEdgeDetected, intFlag, outputPin, pc, currentTime,
                 since, now, t0, sampled, fifoVars>>

\* one tick of the clock, as Tick; the time the peers spend quiescent with
\* no control frame requested is not counted
ControlTick ==
  /\ elapsed < app.horizon
  /\ ~(Quiescent /\ ~gemini["A"].outputQueued)
  /\ \A p \in Peers :
       /\ ~intFlag[p]
       /\ since[p] < (IF pc[p] = "loop" THEN app.lag ELSE writePulseMicros)
  /\ now' = ULAdd(now, 1)
  /\ since' = [p \in Peers |-> since[p] + 1]
  /\ UNCHANGED <<gemini, inputEdgeDetected, intFlag, outputPin, pc,
                 currentTime, t0, sampled, app, fifoVars>>

\* ------------------------------------------------------------------------
\* Initial states
\* ------------------------------------------------------------------------
\* the variables of the boolFifo under test, when no test runs
IdleFifo ==
  /\ fifo = boolFifo
  /\ seed = 0
  /\ nPushed = 0
  /\ nPulled = 0
  /\ lastOp = "none"
  /\ lastRet = FALSE
  /\ refused = FALSE

\* the lines LOW, no edge seen, the clock at its start
InitLines ==
  /\ inputEdgeDetected = [p \in Peers |-> FALSE]
  /\ intFlag = [p \in Peers |-> FALSE]
  /\ outputPin = [p \in Peers |-> FALSE]
  /\ pc = [p \in Peers |-> "loop"]
  /\ currentTime = [p \in Peers |-> UL(0)]
  /\ since = [p \in Peers |-> 1]
  /\ now = UL(0)
  /\ t0 = UL(0)
  /\ sampled = [p \in Peers |-> 0]

\* both peers after begin(), initiator capability as in can
InitPeers(can) ==
  /\ gemini = [p \in Peers |-> begin(can[p])]
  /\ InitLines

\* the callers before they did anything
NoApp ==
  [scn |-> "none",     \* which callers run
   horizon |-> 0,      \* ticks after which the clock stops
   lag |-> 1,          \* update() is called at least every lag ticks
   budget |-> 0,       \* single bits the callers may still send
   sync |-> 0,         \* zero bits sent before the frame
   tx |-> <<>>,        \* bytes sent
   tail |-> <<>>,      \* bits sent after them (a sub-frame cut short)
   sent |-> FALSE,     \* the sender has queued its bits
   rx |-> -1,          \* what receiveByte() returned
   got |-> NULL,       \* the bytes the caller read after getFrame()
   gotten |-> FALSE,   \* getFrame() was called
   tx2 |-> <<>>,       \* bytes of the second frame
   from2 |-> "A",      \* the peer that sends the second frame
   second |-> FALSE,   \* the second frame was queued
   calls |-> 0,        \* calls made by the caller of the receiver
   halted |-> FALSE,   \* B stopped calling update()
   call |-> "none",    \* the last call made by a caller
   pre |-> <<>>,       \* the bits the FIFO held before that call
   i |-> 0,            \* receiveByte(true): the index of its for loop
   receivedByte |-> 0, \* receiveByte(true): the bits pulled so far
   ret |-> FALSE]      \* what that call returned

\* ------------------------------------------------------------------------
\* Bit level specification: two peers, callers that send single bits
\* ------------------------------------------------------------------------
InitGemini ==
  /\ IdleFifo
  /\ InitPeers([p \in Peers |-> p = "A"])
  /\ app = [NoApp EXCEPT !.scn = "bits",
                         !.horizon = MaxTime,
                         !.lag = MaxLag,
                         !.budget = MaxSend]

NextGemini ==
  \/ Tick
  \/ \E p \in Peers : risingEdgeInterrupt(p)
  \/ \E p \in Peers : Update(p)
  \/ \E p \in Peers : UpdateResume(p)
  \/ \E p \in Peers, bit \in BOOLEAN : Send(p, bit)

SpecGemini == InitGemini /\ [][NextGemini]_vars

\* ------------------------------------------------------------------------
\* Frame timeout specification: as the bit level specification, after
\* setFrameTimeout() on both peers with any value up to the default
\* ------------------------------------------------------------------------
InitTimeout ==
  /\ IdleFifo
  /\ InitLines
  /\ \E newValue \in 0..frameTimeout :
       gemini = [p \in Peers |-> setFrameTimeout(begin(p = "A"), newValue)]
  /\ app = [NoApp EXCEPT !.scn = "timeout",
                         !.horizon = MaxTimeModes,
                         !.lag = MaxLag,
                         !.budget = MaxSend]

SpecTimeout == InitTimeout /\ [][NextGemini]_vars

\* ------------------------------------------------------------------------
\* Clock wrap specification: as the bit level specification, with micros()
\* at most MaxBeforeWrap ticks before its wrap from 2^32 - 1 to 0 at the
\* start, when both peers have just seen the frame timeout of the session
\* before
\* ------------------------------------------------------------------------
MaxBeforeWrap == 6

InitWrap ==
  /\ IdleFifo
  /\ inputEdgeDetected = [p \in Peers |-> FALSE]
  /\ intFlag = [p \in Peers |-> FALSE]
  /\ outputPin = [p \in Peers |-> FALSE]
  /\ pc = [p \in Peers |-> "loop"]
  /\ currentTime = [p \in Peers |-> UL(0)]
  /\ since = [p \in Peers |-> 1]
  /\ sampled = [p \in Peers |-> 0]
  /\ \E k \in 1..MaxBeforeWrap :
       /\ now = <<HALF - 1, HALF - k>>
       /\ t0 = now
       /\ gemini = [p \in Peers |->
                      [begin(p = "A") EXCEPT !.lastBitReadTime =
                         <<HALF - 1, HALF - k - frameTimeout>>]]
  /\ app = [NoApp EXCEPT !.scn = "wrap",
                         !.horizon = 2 * frameTimeout,
                         !.budget = LiveBits]

SpecWrap == InitWrap /\ [][NextGemini]_vars

\* ------------------------------------------------------------------------
\* Initiator mode specification: as the bit level specification, for every
\* setting of setInitiatorMode() on the two peers
\* ------------------------------------------------------------------------
InitModes ==
  /\ IdleFifo
  /\ \E can \in [Peers -> BOOLEAN] : InitPeers(can)
  /\ app = [NoApp EXCEPT !.scn = "bits",
                         !.horizon = MaxTimeModes,
                         !.lag = MaxLag,
                         !.budget = MaxSend]

SpecModes == InitModes /\ [][NextGemini]_vars

\* ------------------------------------------------------------------------
\* Byte specification: the initiator A sends one byte, B calls receiveByte()
\* ------------------------------------------------------------------------
\* the clock runs until the peers are quiescent
NoHorizon == HALF - 1

\* the bytes carried over the lines: none and all bits set, each bit alone,
\* and bytes unequal to their mirror image
ByteSample == {0, 255, 77, 178} \cup {2 ^ i : i \in 0..7}

InitByte ==
  /\ IdleFifo
  /\ InitPeers([p \in Peers |-> p = "A"])
  /\ app = [NoApp EXCEPT !.scn = "byte", !.horizon = NoHorizon]

NextByte ==
  \/ Tick
  \/ \E p \in Peers : risingEdgeInterrupt(p)
  \/ \E p \in Peers : Update(p)
  \/ \E p \in Peers : UpdateResume(p)
  \/ \E data \in ByteSample : SendByte("A", data)
  \/ ReceiveByte("B")

SpecByte == InitByte /\ [][NextByte]_vars

\* ------------------------------------------------------------------------
\* Frame specification: the initiator A sends zero bits, sub-frames and
\* possibly a sub-frame cut short; B has a frame buffer of len bytes
\* ------------------------------------------------------------------------
\* the command frame cmd_1 of the K197Probe example: five sub-frames, sent
\* without synchronization bits
ExampleFrame == <<0, 2, 128, 0, 0>>

\* the frames sent: n bytes of the example frame from the r-th on, so that
\* neighbours differ, a zero byte occurs, and no byte is its mirror image
\* unless it is zero
FrameOf(n, r) == [i \in 1..n |-> ExampleFrame[((r + i - 1) % 3) + 1]]

\* what may follow the last sub-frame of an incomplete frame: nothing, a
\* start bit, a start bit and three data bits
Tails == {<<>>, <<TRUE>>, <<TRUE, FALSE, TRUE, TRUE>>}

\* the peers when B was set up with begin(pdata, len), the caller's array
\* pdata filled with 0xFF, a byte no frame sent contains
InitFramePeers(len) ==
  /\ gemini = [p \in Peers |->
                IF p = "A" THEN begin(TRUE)
                ELSE setInputBuffer(begin(FALSE),
                                    [i \in 1..len |-> 255], len)]
  /\ InitLines

\* what the sender does: a complete frame after no or MaxSync zero bits, an
\* incomplete frame, or an empty frame of zero bits only
Scenario(len, sync, n, r, tail) ==
  \/ n = len /\ tail = <<>> /\ sync \in {0, MaxSync}
  \/ n < len /\ n + Len(tail) > 0 /\ sync = 0 /\ r = 0
  \/ /\ len = 1 /\ n = 0 /\ tail = <<>> /\ r = 0
     /\ sync >= 1 /\ (sync <= MaxSync \/ sync = MaxEmptySync)

InitFrame ==
  /\ IdleFifo
  /\ \/ \E len \in 1..MaxFrameLen, n \in 0..MaxFrameLen, r \in 0..2,
           sync \in 0..MaxEmptySync, tail \in Tails :
           /\ Scenario(len, sync, n, r, tail)
           /\ InitFramePeers(len)
           /\ app = [NoApp EXCEPT !.scn = "frame", !.horizon = NoHorizon,
                                  !.sync = sync, !.tx = FrameOf(n, r),
                                  !.tail = tail]
     \/ /\ InitFramePeers(Len(ExampleFrame))
        /\ app = [NoApp EXCEPT !.scn = "frame", !.horizon = NoHorizon,
                               !.tx = ExampleFrame]

NextFrame ==
  \/ Tick
  \/ \E p \in Peers : risingEdgeInterrupt(p)
  \/ \E p \in Peers : Update(p)
  \/ \E p \in Peers : UpdateResume(p)
  \/ SendFrame("A")
  \/ GetFrame("B")

SpecFrame == InitFrame /\ [][NextFrame]_vars

\* ------------------------------------------------------------------------
\* Session specification: A sends a frame, complete or half a sub-frame
\* after all sub-frames but one, and once the session is over A sends a
\* second frame; or A sends a start bit and then B sends a frame. The
\* caller of B calls getFrame() when it likes
\* ------------------------------------------------------------------------
InitSessions ==
  /\ IdleFifo
  /\ InitLines
  /\ \E len \in 1..MaxHeldLen, n \in 0..MaxHeldLen, tail \in Tails,
        q \in Peers :
       /\ len - 1 <= n /\ n <= len
       /\ IF q = "B" THEN len = 1 /\ n = 0 /\ Len(tail) = 1
          ELSE IF n = len THEN tail = <<>>
          ELSE Len(tail) > 1
       /\ gemini = [p \in Peers |->
                     IF p = "A" THEN begin(TRUE)
                     ELSE setInputBuffer(begin(q = "B"),
                                         [i \in 1..len |-> 255], len)]
       /\ app = [NoApp EXCEPT !.scn = "sessions", !.horizon = NoHorizon,
                              !.tx = FrameOf(n, 0),
                              !.tail = tail,
                              !.tx2 = FrameOf(len, 1),
                              !.from2 = q]

NextSessions ==
  \/ Tick
  \/ \E p \in Peers : risingEdgeInterrupt(p)
  \/ \E p \in Peers : Update(p)
  \/ \E p \in Peers : UpdateResume(p)
  \/ SendFrame("A")
  \/ Rest
  \/ \E p \in Peers : SendSecond(p)
  \/ GetFrame("B")

SpecSessions == InitSessions /\ [][NextSessions]_vars

\* ------------------------------------------------------------------------
\* Reply specification: both peers can initiate and A has a frame buffer of
\* one byte. A sends one bit; once that session is over for both peers, B
\* answers at any later time with a frame of one sub-frame. The caller of A
\* calls getFrame() when it sees frameComplete()
\* ------------------------------------------------------------------------
InitSkip ==
  /\ IdleFifo
  /\ InitLines
  /\ gemini = [p \in Peers |->
                IF p = "A" THEN setInputBuffer(begin(TRUE), <<255>>, 1)
                ELSE begin(TRUE)]
  /\ app = [NoApp EXCEPT !.scn = "skip", !.horizon = NoHorizon,
                         !.tail = <<FALSE>>,
                         !.tx2 = FrameOf(1, 1),
                         !.from2 = "B"]

NextSkip ==
  \/ Tick
  \/ \E p \in Peers : risingEdgeInterrupt(p)
  \/ \E p \in Peers : Update(p)
  \/ \E p \in Peers : UpdateResume(p)
  \/ SendFrame("A")
  \/ gemini["A"].frameEndDetected /\ SendSecond("B")
  \/ GetFrame("A")

SpecSkip == InitSkip /\ [][NextSkip]_vars

\* ------------------------------------------------------------------------
\* Caller specification: A sends a frame of one sub-frame, B has a buffer
\* of one byte; the caller of B calls getFrame(), resetFrame(), resetFrameTimeoutCounter()
\* and a begin(pdata, nbytes) that fails, when it likes
\* ------------------------------------------------------------------------
\* the arguments begin(pdata, nbytes) refuses: no array, no length, neither
BadBuffers(len) ==
  {<<NULL, len>>, <<[i \in 1..len |-> 255], 0>>, <<NULL, 0>>}

InitCalls ==
  /\ IdleFifo
  /\ InitFramePeers(1)
  /\ app = [NoApp EXCEPT !.scn = "calls", !.horizon = NoHorizon,
                         !.tx = FrameOf(1, 1)]

NextCalls ==
  \/ Tick
  \/ \E p \in Peers : risingEdgeInterrupt(p)
  \/ \E p \in Peers : Update(p)
  \/ \E p \in Peers : UpdateResume(p)
  \/ SendFrame("A")
  \/ GetFrame("B")
  \/ ResetFrame("B")
  \/ ResetFrameTimeoutCounter("B")
  \/ \E a \in BadBuffers(gemini["B"].pInputData_len) : Begin("B", a[1], a[2])

SpecCalls == InitCalls /\ [][NextCalls]_vars

\* ------------------------------------------------------------------------
\* Stall specification: A sends StallBits bits, and B stops calling
\* update() at some moment, or never
\* ------------------------------------------------------------------------
\* the clock runs long enough for a frame timeout after the last bit
StallHorizon == (StallBits + 2) * frameTimeout

InitStall ==
  /\ IdleFifo
  /\ InitPeers([p \in Peers |-> p = "A"])
  /\ app = [NoApp EXCEPT !.scn = "stall", !.horizon = StallHorizon,
                         !.tail = [i \in 1..StallBits |-> i % 2 = 1]]

NextStall ==
  \/ StallTick
  \/ \E p \in Peers : risingEdgeInterrupt(p)
  \/ \E p \in Peers : UpdateLive(p)
  \/ \E p \in Peers : UpdateResume(p)
  \/ SendFrame("A")
  \/ Halt

SpecStall == InitStall /\ [][NextStall]_vars

\* ------------------------------------------------------------------------
\* Liveness specification: the caller of A sends LiveBits bits, 1 and 0 in
\* turn, each at any time; both peers keep calling update(), the interrupts
\* are served and the clock runs on after every send() until any session
\* has ended
\* ------------------------------------------------------------------------
\* the clock runs this long after the last send()
LiveHorizon == (LiveBits + 2) * frameTimeout

\* the caller of peer p, between two update(): send(bit)
SendLive(p, bit) ==
  /\ pc[p] = "loop"
  /\ app.budget > 0
  /\ gemini' = [gemini EXCEPT ![p].outputBuffer = sendBit(@, bit).f]
  /\ app' = [app EXCEPT !.budget = @ - 1]
  /\ t0' = now
  /\ UNCHANGED <<inputEdgeDetected, intFlag, outputPin, pc, currentTime,
                 since, now, sampled, fifoVars>>

\* the interrupt hardware: a pending interrupt is served
Interrupts == \E p \in Peers : risingEdgeInterrupt(p)

\* loop() of peer p runs: whenever it can go on with update(), it does
Runs(p) == Update(p) \/ UpdateResume(p)

InitLive ==
  /\ IdleFifo
  /\ InitPeers([p \in Peers |-> p = "A"])
  /\ app = [NoApp EXCEPT !.scn = "live", !.horizon = LiveHorizon,
                         !.budget = LiveBits]

NextLive ==
  \/ Tick
  \/ \E p \in Peers : risingEdgeInterrupt(p)
  \/ \E p \in Peers : Update(p)
  \/ \E p \in Peers : UpdateResume(p)
  \/ SendLive("A", app.budget % 2 = 0)

\* update() keeps being called on both sides (gemini.h: "update() should be
\* called as often as possible"), the hardware serves every interrupt and
\* micros() advances
SpecLive ==
  /\ InitLive
  /\ [][NextLive]_vars
  /\ WF_vars(Tick)
  /\ WF_vars(Interrupts)
  /\ \A p \in Peers : WF_vars(Runs(p))

\* ------------------------------------------------------------------------
\* Blocking specification: A sends the first 8 - MaxShort .. 8 bits of a
\* byte, and the caller of B calls receiveByte(true) at some moment
\* ------------------------------------------------------------------------
\* the clock runs long enough for eight bits and a frame timeout after them
BlockHorizon == 9 * frameTimeout

\* the byte A sends, unequal to its mirror image: 0xB2
BlockByte == 178

\* the caller of peer p is inside receiveByte(true): in its while loop, or
\* in its for loop
Blocked(p) == p = "B" /\ app.call \in {"receiveByte", "pull"}

\* the caller of peer p, between two update(): it calls receiveByte(true)
CallReceiveByteBlocking(p) ==
  /\ pc[p] = "loop"
  /\ app.call = "none"
  /\ app' = [app EXCEPT !.call = "receiveByte"]
  /\ UNCHANGED <<gemini, inputEdgeDetected, intFlag, outputPin, pc,
                 currentTime, since, now, t0, sampled, fifoVars>>

\* receiveByte(true): one turn of while (!hasData(8)) update(), which calls
\* GeminiProtocol::update() (update() is not virtual), to its end or to its
\* delayMicroseconds()
ReceiveByteUpdate(p) ==
  /\ p = "B"
  /\ app.call = "receiveByte"
  /\ pc[p] = "loop"
  /\ ~hasDataN(gemini[p], 8)
  /\ since[p] >= 1
  /\ LET g == gemini[p]
         r == protocolUpdate(g, inputEdgeDetected[p], outputPin[p], now,
                             outputPin[Other(p)])
     IN /\ gemini' = [gemini EXCEPT ![p] = r.g]
        /\ inputEdgeDetected' = [inputEdgeDetected EXCEPT ![p] = r.edge]
        /\ outputPin' = [outputPin EXCEPT ![p] = r.pin]
        /\ intFlag' = IF risingEdge(p, r.pin)
                        THEN [intFlag EXCEPT ![Other(p)] = TRUE]
                        ELSE intFlag
        /\ pc' = [pc EXCEPT ![p] = r.pc]
        /\ currentTime' = [currentTime EXCEPT ![p] =
                             IF r.pc = "loop" THEN UL(0) ELSE now]
        /\ sampled' = [sampled EXCEPT ![p] =
                         IF g.state = "BIT_READ_START" /\ readDue(g, now)
                           THEN @ + 1 ELSE @]
  /\ since' = [since EXCEPT ![p] = 0]
  /\ UNCHANGED <<now, t0, app, fifoVars>>

\* receiveByte(true): GeminiProtocol::update() from the end of its
\* delayMicroseconds()
ReceiveByteResume(p) ==
  /\ Blocked(p)
  /\ pc[p] /= "loop"
  /\ since[p] >= writePulseMicros
  /\ LET r == protocolResume(gemini[p], pc[p], currentTime[p])
     IN /\ gemini' = [gemini EXCEPT ![p] = r.g]
        /\ outputPin' = [outputPin EXCEPT ![p] = r.pin]
        /\ intFlag' = IF risingEdge(p, r.pin)
                        THEN [intFlag EXCEPT ![Other(p)] = TRUE]
                        ELSE intFlag
  /\ pc' = [pc EXCEPT ![p] = "loop"]
  /\ currentTime' = [currentTime EXCEPT ![p] = UL(0)]
  /\ since' = [since EXCEPT ![p] = 0]
  /\ UNCHANGED <<inputEdgeDetected, now, t0, sampled, app, fifoVars>>

\* receiveByte(true) finds hasData(8): it leaves the while loop, or never
\* enters it, and starts its for loop with i = 7
ReceiveByteExit(p) ==
  /\ p = "B"
  /\ app.call = "receiveByte"
  /\ pc[p] = "loop"
  /\ hasDataN(gemini[p], 8)
  /\ app' = [app EXCEPT !.call = "pull", !.i = 7, !.receivedByte = 0,
                        !.pre = Contents(gemini[p].inputBuffer)]
  /\ UNCHANGED <<gemini, inputEdgeDetected, intFlag, outputPin, pc,
                 currentTime, since, now, t0, sampled, fifoVars>>

\* receiveByte(true): one turn of its for loop,
\* receivedByte |= (inputBuffer.pull() << i)
ReceiveBytePull(p) ==
  /\ p = "B"
  /\ app.call = "pull"
  /\ app.i >= 0
  /\ LET r == pull(gemini[p].inputBuffer)
     IN /\ gemini' = [gemini EXCEPT ![p].inputBuffer = r.f]
        /\ app' = [app EXCEPT !.i = @ - 1,
                              !.receivedByte =
                                 @ + (IF r.ret THEN Pow2(app.i) ELSE 0)]
  /\ UNCHANGED <<inputEdgeDetected, intFlag, outputPin, pc, currentTime,
                 since, now, t0, sampled, fifoVars>>

\* receiveByte(true) returns receivedByte
ReceiveByteReturn(p) ==
  /\ p = "B"
  /\ app.call = "pull"
  /\ app.i < 0
  /\ app' = [app EXCEPT !.call = "returned", !.rx = app.receivedByte]
  /\ UNCHANGED <<gemini, inputEdgeDetected, intFlag, outputPin, pc,
                 currentTime, since, now, t0, sampled, fifoVars>>

\* update() called by loop() of a peer that is not inside receiveByte(true)
UpdateLoop(p) == ~Blocked(p) /\ Update(p)

UpdateLoopResume(p) == ~Blocked(p) /\ UpdateResume(p)

\* the processor of peer p runs: loop() goes on with update(), or
\* receiveByte(true) goes on with its loop and returns once it is left
RunsOrWaits(p) ==
  \/ UpdateLoop(p)
  \/ UpdateLoopResume(p)
  \/ ReceiveByteUpdate(p)
  \/ ReceiveByteResume(p)
  \/ ReceiveByteExit(p)
  \/ ReceiveBytePull(p)
  \/ ReceiveByteReturn(p)

InitBlock ==
  /\ IdleFifo
  /\ InitPeers([p \in Peers |-> p = "A"])
  /\ \E n \in (8 - MaxShort)..8 :
       app = [NoApp EXCEPT !.scn = "block", !.horizon = BlockHorizon,
                           !.tail = [i \in 1..n |-> BitOf(BlockByte, 8 - i)]]

NextBlock ==
  \/ Tick
  \/ \E p \in Peers : risingEdgeInterrupt(p)
  \/ \E p \in Peers : UpdateLoop(p)
  \/ \E p \in Peers : UpdateLoopResume(p)
  \/ SendFrame("A")
  \/ CallReceiveByteBlocking("B")
  \/ ReceiveByteUpdate("B")
  \/ ReceiveByteResume("B")
  \/ ReceiveByteExit("B")
  \/ ReceiveBytePull("B")
  \/ ReceiveByteReturn("B")

\* both processors keep running, the hardware serves every interrupt and
\* micros() advances; when the callers call send() and receiveByte(true) is
\* up to them
SpecBlock ==
  /\ InitBlock
  /\ [][NextBlock]_vars
  /\ WF_vars(Tick)
  /\ WF_vars(Interrupts)
  /\ \A p \in Peers : WF_vars(RunsOrWaits(p))

\* ------------------------------------------------------------------------
\* Control specification: A is a GeminiK197Control with the control buffer
\* cmd_1, or with none, whose caller has queued up to MaxRaw bits with
\* send(bool) and calls execute() at any time; B has a frame buffer as long
\* as a control frame
\* ------------------------------------------------------------------------
\* the clock runs long enough for the bits queued before, a frame timeout
\* and the first bits of a control frame
ControlHorizon == (MaxRaw + 3) * frameTimeout

InitControl ==
  /\ IdleFifo
  /\ InitLines
  /\ \E pctl \in {NULL, ExampleFrame}, raw \in 0..MaxRaw :
       gemini = [p \in Peers |->
                  IF p = "A"
                    THEN k197Begin([begin(TRUE) EXCEPT !.outputBuffer =
                                      sendBits(@, [i \in 1..raw |-> TRUE], 1)],
                                   pctl)
                    ELSE setInputBuffer(begin(FALSE),
                                        [i \in 1..Len(ExampleFrame) |-> 255],
                                        Len(ExampleFrame))]
  /\ app = [NoApp EXCEPT !.scn = "control", !.horizon = ControlHorizon]

NextControl ==
  \/ ControlTick
  \/ \E p \in Peers : risingEdgeInterrupt(p)
  \/ ControlUpdate("A")
  \/ Update("B")
  \/ \E p \in Peers : UpdateResume(p)
  \/ Execute("A")

SpecControl == InitControl /\ [][NextControl]_vars

\* ------------------------------------------------------------------------
\* Startup specification: A is a GeminiK197Control after begin(), its
\* measurement buffer bound or taken away with setMeasurementBuffer(NULL);
\* setup() of A calls serverStartup(), modelled from the send() calls after
\* the startup pulses on up to its return. B acknowledges every bit
\* ------------------------------------------------------------------------
\* serverStartup() up to its loop: send(initial_data); send(false);
ServerStartup(p) ==
  /\ pc[p] = "loop"
  /\ app.call = "none"
  /\ gemini' = [gemini EXCEPT ![p].outputBuffer =
                  sendBit(send(@, 128).f, FALSE).f]
  /\ app' = [app EXCEPT !.call = "serverStartup"]
  /\ UNCHANGED <<inputEdgeDetected, intFlag, outputPin, pc, currentTime,
                 since, now, t0, sampled, fifoVars>>

\* serverStartup() after its loop, which hasData(9) ends: pulse(30), a
\* rising edge for the peer and the pin LOW again, setInitiatorMode(false),
\* return true. The clock is not followed past the return
StartupReturn(p) ==
  /\ pc[p] = "loop"
  /\ app.call = "serverStartup"
  /\ hasDataN(gemini[p], 9)
  /\ gemini' = [gemini EXCEPT ![p].canBeInitiator = FALSE]
  /\ intFlag' = IF risingEdge(p, TRUE)
                  THEN [intFlag EXCEPT ![Other(p)] = TRUE]
                  ELSE intFlag
  /\ outputPin' = [outputPin EXCEPT ![p] = FALSE]
  /\ app' = [app EXCEPT !.call = "returned", !.ret = TRUE,
                         !.horizon = elapsed]
  /\ UNCHANGED <<inputEdgeDetected, pc, currentTime, since, now, t0,
                 sampled, fifoVars>>

\* update() of p in the loop while (hasData(9) == false) update() of
\* serverStartup()
StartupUpdate(p) ==
  /\ app.call = "serverStartup"
  /\ ~hasDataN(gemini[p], 9)
  /\ ControlUpdate(p)

\* A runs: whenever serverStartup() or loop() can go on, it does
StartupRuns(p) == StartupUpdate(p) \/ UpdateResume(p) \/ StartupReturn(p)

InitStartup ==
  /\ IdleFifo
  /\ InitLines
  /\ \E pdata \in {NULL, [i \in 1..4 |-> 255]} :
       gemini = [p \in Peers |->
                  IF p = "A"
                    THEN k197Begin(setInputBuffer(begin(TRUE), pdata, 4),
                                   ExampleFrame)
                    ELSE begin(FALSE)]
  /\ app = [NoApp EXCEPT !.scn = "startup", !.horizon = NoHorizon]

NextStartup ==
  \/ Tick
  \/ \E p \in Peers : risingEdgeInterrupt(p)
  \/ ServerStartup("A")
  \/ StartupUpdate("A")
  \/ Update("B")
  \/ \E p \in Peers : UpdateResume(p)
  \/ StartupReturn("A")

SpecStartup ==
  /\ InitStartup
  /\ [][NextStartup]_vars
  /\ WF_vars(Tick)
  /\ WF_vars(Interrupts)
  /\ WF_vars(StartupRuns("A"))
  /\ WF_vars(Runs("B"))

\* ------------------------------------------------------------------------
\* Overrun specification: B has a frame buffer of one byte, A sends one
\* sub-frame more than it holds in one session, and the caller of B calls
\* getFrame() once it sees frameComplete(), or resetFrame() when it likes
\* ------------------------------------------------------------------------
InitOver ==
  /\ IdleFifo
  /\ InitFramePeers(1)
  /\ app = [NoApp EXCEPT !.scn = "over", !.horizon = NoHorizon,
                         !.tx = FrameOf(gemini["B"].pInputData_len + 1, 1)]

NextOver ==
  \/ Tick
  \/ \E p \in Peers : risingEdgeInterrupt(p)
  \/ \E p \in Peers : Update(p)
  \/ \E p \in Peers : UpdateResume(p)
  \/ SendFrame("A")
  \/ app.calls = 0 /\ GetFrame("B")
  \/ ~app.gotten /\ app.calls < MaxResets /\ ResetFrame("B")

SpecOver == InitOver /\ [][NextOver]_vars

\* ------------------------------------------------------------------------
\* Send specification: one call of send(uint8_t) or sendFrame() on the
\* output FIFO of A, whatever the FIFO holds and wherever its head is
\* ------------------------------------------------------------------------
\* the FIFO after n times send(bit) and the transmission of the bit
RECURSIVE Advance(_, _)
Advance(f, n) ==
  IF n = 0 THEN f
  ELSE LET g == pull(sendBit(f, FALSE).f).f
       IN IF empty(g) THEN Advance(g, n - 1) ELSE g

\* the FIFO after n more send(bit), every third bit a 1
RECURSIVE Fill(_, _)
Fill(f, n) ==
  IF n = 0 THEN f
  ELSE LET g == sendBit(f, n % 3 = 0).f
       IN IF empty(g) THEN g ELSE Fill(g, n - 1)

\* positions of the head at the time of the call
SendHeads == {0, FIFO_SIZE - 3}

InitSend ==
  /\ IdleFifo
  /\ InitLines
  /\ \E h \in SendHeads, n \in 0..FIFO_SIZE :
       gemini = [p \in Peers |->
                  IF p = "A"
                    THEN [begin(TRUE) EXCEPT
                            !.outputBuffer = Fill(Advance(@, h), n)]
                    ELSE begin(FALSE)]
  /\ app = [NoApp EXCEPT !.scn = "send"]

\* the caller of p calls send(data)
CallSend(p, data) ==
  /\ app.call = "none"
  /\ LET r == send(gemini[p].outputBuffer, data)
     IN /\ gemini' = [gemini EXCEPT ![p].outputBuffer = r.f]
        /\ app' = [app EXCEPT !.call = "send", !.tx = <<data>>,
                              !.pre = Contents(gemini[p].outputBuffer),
                              !.ret = r.ret]
  /\ UNCHANGED <<inputEdgeDetected, intFlag, outputPin, pc, currentTime,
                 since, now, t0, sampled, fifoVars>>

\* the caller of p calls sendFrame(pdata, Len(pdata))
CallSendFrame(p, pdata) ==
  /\ app.call = "none"
  /\ gemini' = [gemini EXCEPT ![p].outputBuffer = sendFrame(@, pdata)]
  /\ app' = [app EXCEPT !.call = "sendFrame", !.tx = pdata,
                        !.pre = Contents(gemini[p].outputBuffer)]
  /\ UNCHANGED <<inputEdgeDetected, intFlag, outputPin, pc, currentTime,
                 since, now, t0, sampled, fifoVars>>

NextSend ==
  \/ \E data \in ByteSample : CallSend("A", data)
  \/ \E n \in 0..MaxSendLen, r \in 0..2 : CallSendFrame("A", FrameOf(n, r))

SpecSend == InitSend /\ [][NextSend]_vars

\* ------------------------------------------------------------------------
\* Receive specification: one call of receiveByte(false) on the input FIFO
\* of B, whatever the FIFO holds and wherever its head is: a byte d, or
\* none when d is -1, and n single bits after it
\* ------------------------------------------------------------------------
InitReceive ==
  /\ IdleFifo
  /\ InitLines
  /\ \E h \in SendHeads, n \in 0..FIFO_SIZE, d \in ByteSample \cup {-1} :
       gemini = [p \in Peers |->
                  IF p = "A" THEN begin(TRUE)
                  ELSE [begin(FALSE) EXCEPT !.inputBuffer =
                          LET f == Advance(@, h)
                          IN Fill(IF d = -1 THEN f ELSE send(f, d).f, n)]]
  /\ app = [NoApp EXCEPT !.scn = "receive"]

\* the caller of p calls receiveByte(false)
CallReceiveByte(p) ==
  /\ app.call = "none"
  /\ LET r == receiveByte(gemini[p].inputBuffer)
     IN /\ gemini' = [gemini EXCEPT ![p].inputBuffer = r.f]
        /\ app' = [app EXCEPT !.call = "receiveByte", !.rx = r.ret,
                              !.pre = Contents(gemini[p].inputBuffer)]
  /\ UNCHANGED <<inputEdgeDetected, intFlag, outputPin, pc, currentTime,
                 since, now, t0, sampled, fifoVars>>

NextReceive == CallReceiveByte("B")

SpecReceive == InitReceive /\ [][NextReceive]_vars

\* ------------------------------------------------------------------------
\* Full FIFO specification: as the bit level specification, but nobody has
\* called receive() for so long that the inbound FIFO of each peer has at
\* most MaxRoom free slots left
\* ------------------------------------------------------------------------
\* free slots of an inbound FIFO at the start
MaxRoom == 1

InitFull ==
  /\ IdleFifo
  /\ InitLines
  /\ \E na, nb \in (FIFO_SIZE - MaxRoom)..FIFO_SIZE :
       gemini = [p \in Peers |->
                  [begin(p = "A") EXCEPT !.inputBuffer =
                     Fill(Advance(@, FIFO_SIZE - 3),
                          IF p = "A" THEN na ELSE nb)]]
  /\ app = [NoApp EXCEPT !.scn = "full",
                         !.horizon = MaxTimeModes,
                         !.lag = MaxLag,
                         !.budget = MaxSend,
                         !.pre = Contents(gemini["B"].inputBuffer)]

SpecFull == InitFull /\ [][NextGemini]_vars

\* ------------------------------------------------------------------------
\* Driver of the boolFifo under test
\* ------------------------------------------------------------------------
\* the k-th bit (k = 0, 1, ...) a caller with pattern s offers
PatBit(s, k) == (s \div Pow2(k % SeedBits)) % 2 = 1

InitFifo ==
  /\ fifo = boolFifo
  /\ seed \in 0..(Pow2(SeedBits) - 1)
  /\ nPushed = 0
  /\ nPulled = 0
  /\ lastOp = "none"
  /\ lastRet = FALSE
  /\ refused = FALSE
  /\ InitPeers([p \in Peers |-> FALSE])
  /\ app = NoApp

\* a caller pushes the next bit of its pattern (again, when it was refused)
FifoPush ==
  /\ nPushed < MaxPushes
  /\ LET r == push(fifo, PatBit(seed, nPushed))
     IN /\ fifo' = r.f
        /\ lastRet' = r.ret
        /\ lastOp' = "push"
        /\ nPushed' = IF r.ret THEN nPushed + 1 ELSE nPushed
        /\ refused' = (refused \/ ~r.ret)
  /\ UNCHANGED <<seed, nPulled, geminiVars>>

FifoPull ==
  /\ LET r == pull(fifo)
     IN /\ fifo' = r.f
        /\ lastRet' = r.ret
        /\ lastOp' = IF empty(fifo) THEN "pull_empty" ELSE "pull"
        /\ nPulled' = IF empty(fifo) THEN nPulled ELSE nPulled + 1
  /\ UNCHANGED <<seed, nPushed, refused, geminiVars>>

NextFifo == FifoPush \/ FifoPull

SpecFifo == InitFifo /\ [][NextFifo]_vars

\* ------------------------------------------------------------------------
\* Claims about the boolFifo
\* ------------------------------------------------------------------------

\* C6: bits pushed into an empty boolFifo are pulled in the same order: the
\* stored bits are, oldest first, the accepted bits that were not pulled yet,
\* every pull returns the oldest accepted bit not pulled before, and a push
\* on the full boolFifo returns false and leaves the 64 stored bits as they
\* were.
FifoOrder ==
  /\ Contents(fifo) = [i \in 1..(nPushed - nPulled) |-> PatBit(seed, nPulled + i - 1)]
  /\ (lastOp = "pull") => (lastRet = PatBit(seed, nPulled - 1))
  /\ (lastOp = "push" /\ ~lastRet) => full(fifo)

\* C6 witness: a push was refused on a boolFifo holding 64 bits after the
\* indices wrapped around, and the pattern has both bit values
FifoOrderWitness ==
  /\ lastOp = "push" /\ ~lastRet
  /\ fifo.count = FIFO_SIZE
  /\ nPulled > 0
  /\ seed = 5

\* C7: a failed call leaves the boolFifo untouched. push returns false exactly
\* when the boolFifo is full, and then buffer, head, tail and count are as
\* before; pull on the empty boolFifo returns false, and buffer, head, tail
\* and count are as before.
FifoFailure ==
  [][/\ (lastOp' = "push") => ((lastRet' = FALSE) <=> full(fifo))
     /\ (lastOp' = "push" /\ lastRet' = FALSE) => (fifo' = fifo)
     /\ (lastOp' = "pull_empty") => (lastRet' = FALSE /\ fifo' = fifo)
     /\ (lastOp' = "pull_empty") <=> (empty(fifo) /\ nPushed' = nPushed)]_vars

\* C7 witness: a push on the full boolFifo was refused, the boolFifo was
\* emptied, and the last call is a pull on the empty boolFifo
FifoFailureWitness ==
  /\ refused
  /\ lastOp = "pull_empty"
  /\ nPulled = FIFO_SIZE

\* C8: after any sequence of push and pull, 0 <= size() <= 64, head and tail
\* are in 0..63, tail = (head + size()) mod 64, empty() holds exactly when
\* size() is 0 and full() exactly when size() is 64.
FifoInvariant ==
  /\ size(fifo) \in 0..FIFO_SIZE
  /\ fifo.head \in 0..(FIFO_SIZE - 1)
  /\ fifo.tail \in 0..(FIFO_SIZE - 1)
  /\ fifo.tail = (fifo.head + size(fifo)) % FIFO_SIZE
  /\ empty(fifo) <=> (size(fifo) = 0)
  /\ full(fifo) <=> (size(fifo) = FIFO_SIZE)
  /\ size(fifo) = nPushed - nPulled

\* C8 witness: the boolFifo is full after head and tail wrapped around
FifoInvariantWitness ==
  /\ full(fifo)
  /\ fifo.head = 2
  /\ fifo.tail = 2
  /\ nPushed = FIFO_SIZE + 2

\* ------------------------------------------------------------------------
\* Claims about GeminiProtocol
\* ------------------------------------------------------------------------

\* C1: with exactly one peer able to initiate, whenever both peers are in
\* State::IDLE they have sampled the same number of bits, and at no time do
\* the two numbers differ by more than one, whatever bits the callers send.
BitParity ==
  /\ (\A p \in Peers : gemini[p].state = "IDLE")
       => sampled["A"] = sampled["B"]
  /\ sampled["A"] - sampled["B"] \in {-1, 0, 1}

\* C1 witness: both peers are idle after two sessions, A sent two bits and B
\* sent one, each sampled two
BitParityWitness ==
  /\ \A p \in Peers : gemini[p].state = "IDLE" /\ pc[p] = "loop"
  /\ sampled["A"] = 2 /\ sampled["B"] = 2
  /\ gemini["A"].outputBuffer.head = 2
  /\ gemini["B"].outputBuffer.head = 1
  /\ gemini["A"].frameEndDetected

\* C9: update() starts a session by itself (raises the line for the pulse
\* of State::IDLE) only when no edge was detected, canBeInitiator is set,
\* the output FIFO is not empty and frameEndDetected is set; a bit leaves
\* the output FIFO only at the end of such a pulse or of the pulse of
\* State::BIT_READ_START, and for a peer with setInitiatorMode(false) only
\* in BIT_READ_START of a session the other peer started.
SelfInitiationGuard ==
  [][\A p \in Peers :
       /\ (pc[p] = "loop" /\ pc'[p] = "PULSE_IDLE") =>
            /\ gemini[p].state = "IDLE"
            /\ ~inputEdgeDetected[p]
            /\ gemini[p].canBeInitiator
            /\ size(gemini[p].outputBuffer) > 0
            /\ gemini[p].frameEndDetected
            /\ outputPin'[p]
       /\ (size(gemini'[p].outputBuffer) < size(gemini[p].outputBuffer)) =>
            /\ pc[p] \in {"PULSE_IDLE", "PULSE_DATA"}
            /\ size(gemini'[p].outputBuffer) = size(gemini[p].outputBuffer) - 1
            /\ (~gemini[p].canBeInitiator =>
                  /\ pc[p] = "PULSE_DATA"
                  /\ gemini[p].state = "BIT_READ_START"
                  /\ ~gemini[p].isInitiator)]_vars

\* C9 witness: a peer that cannot initiate is about to send a bit in reply,
\* while the peer that started the session has another bit to send
SelfInitiationGuardWitness ==
  \E p \in Peers :
    /\ ~gemini[p].canBeInitiator
    /\ pc[p] = "PULSE_DATA"
    /\ gemini[Other(p)].canBeInitiator
    /\ size(gemini[Other(p)].outputBuffer) > 0

\* C10: in State::BIT_WRITE_WAIT_ACK an update() that finds no edge detected
\* changes nothing of the protocol (state, output line, FIFOs,
\* frameEndDetected, isInitiator, lastBitReadTime), and the state is left
\* only by a step that found the edge detected, however long the wait and
\* whatever handshakeTimeoutMicros is.
NoAckTimeout ==
  [][\A p \in Peers :
       (gemini[p].state = "BIT_WRITE_WAIT_ACK" /\ ~inputEdgeDetected[p]) =>
         /\ gemini'[p].state = "BIT_WRITE_WAIT_ACK"
         /\ outputPin'[p] = outputPin[p]
         /\ gemini'[p].inputBuffer = gemini[p].inputBuffer
         /\ gemini'[p].frameEndDetected = gemini[p].frameEndDetected
         /\ gemini'[p].isInitiator = gemini[p].isInitiator
         /\ gemini'[p].lastBitReadTime = gemini[p].lastBitReadTime
         /\ (Update(p) => gemini'[p].outputBuffer = gemini[p].outputBuffer)
         /\ gemini'[p].outputBuffer.head = gemini[p].outputBuffer.head]_vars

\* C10 witness: a peer is in BIT_WRITE_WAIT_ACK, no edge detected or on its
\* way, for longer than handshakeTimeoutMicros, and enters update()
NoAckTimeoutWitness ==
  \E p \in Peers :
    /\ gemini[p].state = "BIT_WRITE_WAIT_ACK"
    /\ ~inputEdgeDetected[p] /\ ~intFlag[p]
    /\ since[p] = 0
    /\ pc[p] = "loop"
    /\ ElapsedGe(now, gemini[p].lastBitReadTime, handshakeTimeoutMicros + 1)

\* C2: a byte the initiator sends with send(byte) on its empty output FIFO
\* is the byte the first receiveByte() of the other peer returns; and for
\* every byte value, the eight bits send(byte) queues are the eight bits
\* receiveByte() turns into that value.
ByteRoundTrip ==
  /\ (app.rx /= -1) => (app.rx = app.tx[1])
  /\ (app.scn = "byte" /\ ~app.sent) =>
       \A data \in 0..255 :
         receiveByte(send(gemini["A"].outputBuffer, data).f).ret = data

\* C2 witness: receiveByte() returned 0x4D, a byte unequal to its mirror
\* image
ByteRoundTripWitness ==
  /\ app.scn = "byte"
  /\ app.rx = 77
  /\ sampled["B"] = 8

\* ------------------------------------------------------------------------
\* Claims about GeminiFrame
\* ------------------------------------------------------------------------
\* the sender sends as many sub-frames as the buffer of B has bytes
CompleteFrame ==
  /\ app.scn = "frame"
  /\ Len(app.tx) = gemini["B"].pInputData_len
  /\ app.tail = <<>>

\* the sender sends zero bits only
EmptyFrame ==
  /\ app.scn = "frame"
  /\ Len(app.tx) = 0
  /\ app.tail = <<>>

\* the sender sends less than a frame, but at least a start bit
PartialFrame ==
  /\ app.scn = "frame"
  /\ Len(app.tx) < gemini["B"].pInputData_len
  /\ Len(app.tx) + Len(app.tail) > 0

\* C3: when z zero bits and the sub-frames of L bytes were delivered to a
\* receiver with a frame buffer of L bytes, frameComplete() holds and the
\* buffer holds the L bytes in order, until the caller calls getFrame();
\* what the caller reads after getFrame() is the L bytes in order.
FrameRoundTrip ==
  CompleteFrame =>
    /\ app.gotten => app.got = app.tx
    /\ (sampled["B"] = app.sync + 9 * Len(app.tx) /\ pc["B"] = "loop") =>
         \/ app.gotten
         \/ frameComplete(gemini["B"]) /\ gemini["B"].pInputData = app.tx

\* C3 witness: the caller read the frame 0x02 0x80 that was sent after a
\* zero bit
FrameRoundTripWitness ==
  /\ CompleteFrame
  /\ app.gotten
  /\ app.sync = 1
  /\ app.got = <<2, 128>>

\* C4: when the sender stopped in the middle of a frame and the frame
\* timeout has passed (nothing is left to happen), frameTimeoutDetected()
\* holds, the frame timeout counter is 1 and the write index is 0.
MidFrameTimeout ==
  (PartialFrame /\ app.sent /\ Quiescent) =>
    /\ frameTimeoutDetected(gemini["B"])
    /\ gemini["B"].frameTimeoutCounter = 1
    /\ gemini["B"].byte_counter = 0

\* C5: when the sender sends zero bits only, frameComplete() never holds,
\* frameTimeoutDetected() never holds and the frame timeout counter stays 0,
\* during the session and after the frame timeout.
EmptyFrameIgnored ==
  EmptyFrame =>
    /\ ~frameComplete(gemini["B"])
    /\ ~frameTimeoutDetected(gemini["B"])
    /\ gemini["B"].frameTimeoutCounter = 0
    /\ gemini["B"].byte_counter = 0
    /\ ~gemini["B"].start_bit

\* C5 witness: nine zero bits were delivered to a receiver with a frame
\* buffer of one byte, and the frame timeout has passed
EmptyFrameIgnoredWitness ==
  /\ EmptyFrame
  /\ app.sent
  /\ sampled["B"] = MaxEmptySync
  /\ gemini["B"].pInputData_len = 1
  /\ gemini["B"].frameEndDetected
  /\ gemini["B"].frameState = "WAIT_FRAME_START"
  /\ Quiescent

\* ------------------------------------------------------------------------
\* Claims about the end of State::BIT_READ_START
\* ------------------------------------------------------------------------

\* C19: the update() that samples the bit in State::BIT_READ_START raises
\* the output line from LOW (an edge for the other peer) and starts the
\* acknowledge pulse when the output FIFO is empty, the pulse before the
\* next bit otherwise; the one exception is a peer that started the session
\* itself and has an empty output FIFO, which goes to State::IDLE with the
\* line LOW and no edge. The acknowledge pulse ends in State::IDLE with the
\* line LOW, the other pulse in State::BIT_WRITE_WAIT_ACK with the line at
\* the bit pulled from the output FIFO.
SessionRoles ==
  [][\A p \in Peers :
       /\ (/\ gemini[p].state = "BIT_READ_START"
           /\ pc[p] = "loop"
           /\ (pc'[p] /= "loop" \/ gemini'[p].state /= "BIT_READ_START")) =>
            IF gemini[p].isInitiator /\ empty(gemini[p].outputBuffer)
              THEN /\ gemini'[p].state = "IDLE"
                   /\ pc'[p] = "loop"
                   /\ ~outputPin'[p]
                   /\ intFlag'[Other(p)] = intFlag[Other(p)]
              ELSE /\ ~outputPin[p]
                   /\ outputPin'[p]
                   /\ intFlag'[Other(p)]
                   /\ gemini'[p].state = "BIT_READ_START"
                   /\ pc'[p] = IF empty(gemini[p].outputBuffer)
                                 THEN "PULSE_ACK" ELSE "PULSE_DATA"
       /\ (pc[p] = "PULSE_ACK" /\ pc'[p] /= "PULSE_ACK") =>
            /\ gemini'[p].state = "IDLE"
            /\ ~outputPin'[p]
            /\ gemini'[p].outputBuffer = gemini[p].outputBuffer
       /\ (pc[p] = "PULSE_DATA" /\ pc'[p] /= "PULSE_DATA") =>
            /\ gemini'[p].state = "BIT_WRITE_WAIT_ACK"
            /\ ~empty(gemini[p].outputBuffer)
            /\ outputPin'[p] = Contents(gemini[p].outputBuffer)[1]
            /\ gemini'[p].outputBuffer = pull(gemini[p].outputBuffer).f]_vars

\* C19 witness: a peer able to initiate, in a session the other peer
\* started and with nothing to send, is in its acknowledge pulse
SessionRolesWitness ==
  \E p \in Peers :
    /\ gemini[p].canBeInitiator
    /\ ~gemini[p].isInitiator
    /\ pc[p] = "PULSE_ACK"
    /\ sampled[p] = 1
    /\ gemini[Other(p)].isInitiator

\* ------------------------------------------------------------------------
\* Claims about send(uint8_t) and sendFrame()
\* ------------------------------------------------------------------------
\* the eight bits of a byte, most significant first
ByteBits(data) == [i \in 1..8 |-> (data \div (2 ^ (8 - i))) % 2 = 1]

\* for each byte in order a 1 and its eight bits
RECURSIVE FrameBits(_)
FrameBits(pdata) ==
  IF pdata = <<>> THEN <<>>
  ELSE <<TRUE>> \o ByteBits(Head(pdata)) \o FrameBits(Tail(pdata))

\* the first n elements of a sequence, all of them when it is shorter
Prefix(seq, n) == SubSeq(seq, 1, IF n < Len(seq) THEN n ELSE Len(seq))

\* free slots of the output FIFO before the call
FreeBefore == FIFO_SIZE - Len(app.pre)

\* C14 as stated: whatever the FIFO held, sendFrame(bytes, n) appended
\* exactly the 9*n bits of the n sub-frames.
SendFrameAppendsAll ==
  (app.call = "sendFrame") =>
    Contents(gemini["A"].outputBuffer) = app.pre \o FrameBits(app.tx)

\* C14 amended: sendFrame(bytes, n) appends the bits of the n sub-frames (a
\* 1 and the eight bits of each byte, most significant first, nothing else)
\* as far as the FIFO has room: all 9*n when 9*n slots are free, otherwise
\* the first bits of them up to the number of free slots.
SendFrameAppends ==
  (app.call = "sendFrame") =>
    Contents(gemini["A"].outputBuffer) =
      app.pre \o Prefix(FrameBits(app.tx), FreeBefore)

\* C14 witness: sendFrame() of two bytes on a FIFO that holds bits, has
\* room for the 18 bits, and wraps around while taking them
SendFrameAppendsWitness ==
  /\ app.call = "sendFrame"
  /\ app.tx = <<2, 128>>
  /\ Len(app.pre) = 40
  /\ gemini["A"].outputBuffer.head = FIFO_SIZE - 3
  /\ gemini["A"].outputBuffer.count = 58

\* C15: send(byte) on a FIFO with k free slots returns true and appends the
\* eight bits, most significant first, when k >= 8; it returns false and
\* appends the k most significant bits when k < 8.
SendNotAtomic ==
  (app.call = "send") =>
    /\ app.ret <=> (FreeBefore >= 8)
    /\ Contents(gemini["A"].outputBuffer) =
         app.pre \o Prefix(ByteBits(app.tx[1]), FreeBefore)

\* C15 witness: send(0xB2) on a FIFO with three free slots returned false
\* and the FIFO is full, its last three bits 1, 0, 1
SendNotAtomicWitness ==
  /\ app.call = "send"
  /\ app.tx = <<178>>
  /\ ~app.ret
  /\ FreeBefore = 3
  /\ full(gemini["A"].outputBuffer)
  /\ SubSeq(Contents(gemini["A"].outputBuffer), 62, 64) = <<TRUE, FALSE, TRUE>>

\* the state after s in the cycle of FrameState
NextFrameState(s) ==
  CASE s = "WAIT_FRAME_START" -> "WAIT_FRAME_DATA"
    [] s = "WAIT_FRAME_DATA" -> "FRAME_END"
    [] s = "FRAME_END" -> "WAIT_FRAME_START"

\* C16: every update() leaves frameState as it is or moves it to the next
\* state of the cycle WAIT_FRAME_START, WAIT_FRAME_DATA, FRAME_END,
\* WAIT_FRAME_START; no call of a caller (getFrame, resetFrame, sendFrame,
\* resetFrameTimeoutCounter, begin that fails) changes it
FrameCycle ==
  [][\A p \in Peers :
       \/ gemini'[p].frameState = gemini[p].frameState
       \/ /\ Update(p) \/ UpdateResume(p)
          /\ gemini'[p].frameState = NextFrameState(gemini[p].frameState)]_vars

\* B went through the whole cycle while it received a frame, and its caller
\* made its calls
FrameCycleWitness ==
  /\ gemini["B"].frameState = "WAIT_FRAME_START"
  /\ gemini["B"].pInputData = app.tx
  /\ sampled["B"] > 0
  /\ app.gotten
  /\ app.calls = MaxCalls

\* C18: resetFrame() sets byte_counter to 0 and start_bit to false and
\* nothing else; called again right after, it changes nothing; getFrame()
\* has the effect of resetFrame(), returns the buffer, and leaves the bytes
\* of the buffer, frameState and frameTimeoutCounter as they are
ResetIdempotent ==
  [][\A p \in Peers :
       /\ ResetFrame(p) =>
            /\ gemini'[p].byte_counter = 0
            /\ ~gemini'[p].start_bit
            /\ [gemini'[p] EXCEPT !.byte_counter = 0, !.start_bit = FALSE]
                 = [gemini[p] EXCEPT !.byte_counter = 0, !.start_bit = FALSE]
            /\ (gemini[p].byte_counter = 0 /\ ~gemini[p].start_bit)
                 => gemini'[p] = gemini[p]
       /\ GetFrame(p) =>
            /\ gemini'[p].byte_counter = 0
            /\ ~gemini'[p].start_bit
            /\ [gemini'[p] EXCEPT !.byte_counter = 0, !.start_bit = FALSE]
                 = [gemini[p] EXCEPT !.byte_counter = 0, !.start_bit = FALSE]
            /\ app'.got = gemini[p].pInputData]_vars

\* resetFrame() was called twice in a row, the first time on the complete
\* frame that getFrame() was never called for
ResetIdempotentWitness ==
  /\ app.call = "resetFrame"
  /\ app.calls = 2
  /\ ~app.gotten
  /\ gemini["B"].pInputData = app.tx
  /\ gemini["B"].byte_counter = 0
  /\ ~gemini["B"].start_bit

\* C20: begin(pdata, nbytes) with pdata NULL or nbytes 0 returns false and
\* changes nothing: the buffer bound before stays bound, state,
\* lastBitReadTime, frameState, byte_counter, the FIFOs and the output pin
\* are as before the call
BeginRefused ==
  [][\A p \in Peers :
       \A a \in BadBuffers(gemini[p].pInputData_len) :
         Begin(p, a[1], a[2]) =>
           /\ ~app'.ret
           /\ gemini' = gemini
           /\ outputPin' = outputPin]_vars

\* begin() was refused in the middle of a sub-frame
BeginRefusedWitness ==
  /\ app.call = "begin"
  /\ ~app.ret
  /\ gemini["B"].state = "BIT_READ_START"
  /\ gemini["B"].frameState = "WAIT_FRAME_DATA"
  /\ gemini["B"].start_bit
  /\ hasInputBuffer(gemini["B"])

\* C17 as stated: in FRAME_END update() drains the input FIFO, stays in
\* FRAME_END while frameEndDetected is set and goes to WAIT_FRAME_START once
\* it is clear
FrameEndStays ==
  [][\A p \in Peers :
       (/\ Update(p) \/ UpdateResume(p)
        /\ gemini[p].frameState = "FRAME_END"
        /\ pc'[p] = "loop") =>
         /\ empty(gemini'[p].inputBuffer)
         /\ gemini'[p].frameState =
              IF gemini'[p].frameEndDetected THEN "FRAME_END"
              ELSE "WAIT_FRAME_START"]_vars

\* C17, amended: in FRAME_END update() drains the input FIFO when a frame
\* buffer is bound, goes to WAIT_FRAME_START when it finds frameEndDetected
\* set, and stays in FRAME_END while frameEndDetected is clear
FrameEndLeaves ==
  [][\A p \in Peers :
       (/\ Update(p) \/ UpdateResume(p)
        /\ gemini[p].frameState = "FRAME_END"
        /\ pc'[p] = "loop") =>
         /\ hasInputBuffer(gemini[p]) => empty(gemini'[p].inputBuffer)
         /\ ~hasInputBuffer(gemini[p]) =>
              gemini'[p].inputBuffer.count >= gemini[p].inputBuffer.count
         /\ gemini'[p].frameState =
              IF gemini'[p].frameEndDetected THEN "WAIT_FRAME_START"
              ELSE "FRAME_END"]_vars

\* B left FRAME_END with frameEndDetected set and sent a frame; the edge of
\* its first bit cleared frameEndDetected of A, which stayed in FRAME_END
FrameEndLeavesWitness ==
  /\ gemini["B"].frameState = "WAIT_FRAME_START"
  /\ gemini["B"].frameEndDetected
  /\ sampled["B"] > 0
  /\ gemini["A"].frameState = "FRAME_END"
  /\ ~gemini["A"].frameEndDetected
  /\ pc["A"] = "loop"
  /\ since["A"] = 0

\* C12: once frameComplete() is true it stays true, and no byte of the
\* frame buffer changes, until the caller calls getFrame() or resetFrame()
HeldFrame ==
  [][\A p \in Peers :
       (/\ hasInputBuffer(gemini[p])
        /\ frameComplete(gemini[p])
        /\ ~GetFrame(p)) =>
         /\ frameComplete(gemini'[p])
         /\ gemini'[p].pInputData = gemini[p].pInputData]_vars

FrameEndAnyState ==
  [][\A p \in Peers :
       (/\ Update(p)
        /\ gemini[p].state \in {"IDLE", "BIT_WRITE_WAIT_ACK"}
        /\ ~inputEdgeDetected[p]
        /\ frameTimeoutDue(gemini[p], now)) =>
         gemini'[p].frameEndDetected]_vars

\* C11, amended: in IDLE an update() that finds no edge and frameTimeout
\* elapsed since the last bit leaves frameEndDetected set; in
\* BIT_WRITE_WAIT_ACK an update() that finds no edge changes nothing,
\* however long ago the last bit was, and frameEndDetected stays clear
FrameEndInIdle ==
  [][\A p \in Peers :
       Update(p) =>
         /\ (/\ gemini[p].state = "IDLE"
             /\ ~inputEdgeDetected[p]
             /\ frameTimeoutDue(gemini[p], now)) =>
              gemini'[p].frameEndDetected
         /\ (/\ gemini[p].state = "BIT_WRITE_WAIT_ACK"
             /\ ~inputEdgeDetected[p]) =>
              /\ gemini'[p] = gemini[p]
              /\ ~gemini'[p].frameEndDetected]_vars

\* B stopped calling update(); A waits for its acknowledge since more than
\* frameTimeout, still calls update(), and frameEndDetected is clear
FrameEndInIdleWitness ==
  /\ app.halted
  /\ gemini["A"].state = "BIT_WRITE_WAIT_ACK"
  /\ ~gemini["A"].frameEndDetected
  /\ ~inputEdgeDetected["A"]
  /\ ElapsedGe(now, gemini["A"].lastBitReadTime, frameTimeout + 1)
  /\ pc["A"] = "loop"
  /\ since["A"] = 0

\* C29: an update() in IDLE that finds the edge flag set goes to
\* BIT_READ_START as the peer that did not start the session, clears
\* frameEndDetected and the edge flag, and in that update() neither pulls a
\* bit from the output FIFO nor pulses nor sets frameEndDetected, whether or
\* not the peer can initiate and has bits to send
EdgePrecedence ==
  [][\A p \in Peers :
       (Update(p) /\ gemini[p].state = "IDLE" /\ inputEdgeDetected[p]) =>
         /\ gemini'[p].state = "BIT_READ_START"
         /\ ~gemini'[p].isInitiator
         /\ ~gemini'[p].frameEndDetected
         /\ ~inputEdgeDetected'[p]
         /\ gemini'[p].outputBuffer = gemini[p].outputBuffer
         /\ gemini'[p].lastBitReadTime = now
         /\ outputPin'[p] = outputPin[p]
         /\ pc'[p] = "loop"]_vars

\* a peer that can initiate and has bits to send took the edge of the first
\* bit of the other peer instead of starting a session
EdgePrecedenceWitness ==
  \E p \in Peers :
    /\ gemini[p].state = "BIT_READ_START"
    /\ ~gemini[p].isInitiator
    /\ gemini[p].canBeInitiator
    /\ ~empty(gemini[p].outputBuffer)
    /\ sampled[p] = 0
    /\ empty(gemini[p].inputBuffer)
    /\ gemini[p].lastBitReadTime = now
    /\ pc[p] = "loop"

\* C27: whenever a peer is in IDLE between two update() its output line is
\* LOW
IdleLineLow ==
  \A p \in Peers :
    (gemini[p].state = "IDLE" /\ pc[p] = "loop") => ~outputPin[p]

\* both peers are back in IDLE, one after it drove a 1 as the initiator and
\* the other after its acknowledge pulse
IdleLineLowWitness ==
  \E p \in Peers :
    /\ gemini[p].state = "IDLE" /\ pc[p] = "loop"
    /\ gemini[Other(p)].state = "IDLE" /\ pc[Other(p)] = "loop"
    /\ sampled[p] > 0
    /\ sampled[Other(p)] > 0
    /\ \E i \in 0..(FIFO_SIZE - 1) :
         /\ i < gemini[p].inputBuffer.tail
         /\ gemini[p].inputBuffer.buffer[i]

\* the byte made of eight bits, the first in bit 7
ByteOf(bits) ==
  LET v(i) == IF bits[i] THEN 2 ^ (8 - i) ELSE 0
  IN v(1) + v(2) + v(3) + v(4) + v(5) + v(6) + v(7) + v(8)

\* C25: receiveByte(false) on fewer than 8 inbound bits returns 0 and
\* leaves the input FIFO as it is; on 8 bits or more it removes the 8 oldest
\* bits and returns them as a byte, the oldest in bit 7
NonBlockingReceive ==
  (app.call = "receiveByte") =>
    LET f == gemini["B"].inputBuffer
    IN IF Len(app.pre) < 8
         THEN app.rx = 0 /\ Contents(f) = app.pre
         ELSE /\ Contents(f) = SubSeq(app.pre, 9, Len(app.pre))
              /\ app.rx = ByteOf(app.pre)

\* receiveByte(false) returned 0 on seven bits, one of them a 1
NonBlockingReceiveWitness ==
  /\ app.call = "receiveByte"
  /\ Len(app.pre) = 7
  /\ \E i \in 1..7 : app.pre[i]
  /\ app.rx = 0
  /\ gemini["B"].inputBuffer.head /= 0

\* C22: frameEndDetected, once set, is cleared only by an update() that
\* takes an edge in IDLE or by the update() that starts a session; no other
\* update() and no call of a caller clears it
FrameEndSticky ==
  [][\A p \in Peers :
       (gemini[p].frameEndDetected /\ ~gemini'[p].frameEndDetected) =>
         \/ Update(p) /\ gemini[p].state = "IDLE" /\ inputEdgeDetected[p]
         \/ UpdateResume(p) /\ pc[p] = "PULSE_IDLE"]_vars

\* B saw the frame end, and frameEndDetected is still set two update()
\* and all calls of its caller later
FrameEndStickyWitness ==
  /\ gemini["B"].frameEndDetected
  /\ sampled["B"] > 0
  /\ ElapsedGe(now, gemini["B"].lastBitReadTime, frameTimeout + 2)
  /\ app.calls = MaxCalls
  /\ app.call = "resetFrame"
  /\ app.gotten

\* C30: an update() in WAIT_FRAME_START that finds frameEndDetected set
\* stays there and, with a frame buffer bound, drains the input FIFO; the
\* first that finds it clear drains nothing, sets byte_counter to 0 and
\* start_bit to false and goes to WAIT_FRAME_DATA, the input FIFO of a peer
\* with a frame buffer being empty then, so that the first bit of the
\* session is taken for a start or synchronization bit
FrameStart ==
  [][\A p \in Peers :
       (/\ Update(p) \/ UpdateResume(p)
        /\ gemini[p].frameState = "WAIT_FRAME_START"
        /\ pc'[p] = "loop") =>
         IF gemini'[p].frameEndDetected
           THEN /\ gemini'[p].frameState = "WAIT_FRAME_START"
                /\ hasInputBuffer(gemini[p]) => empty(gemini'[p].inputBuffer)
                /\ gemini'[p].byte_counter = gemini[p].byte_counter
                /\ gemini'[p].start_bit = gemini[p].start_bit
           ELSE /\ gemini'[p].frameState = "WAIT_FRAME_DATA"
                /\ gemini'[p].byte_counter = 0
                /\ ~gemini'[p].start_bit
                /\ gemini'[p].inputBuffer = gemini[p].inputBuffer
                /\ hasInputBuffer(gemini[p]) =>
                     empty(gemini'[p].inputBuffer)]_vars

\* B took the first edge of the second session after a frame that ended in
\* the middle of a sub-frame
FrameStartWitness ==
  /\ gemini["B"].frameState = "WAIT_FRAME_DATA"
  /\ gemini["B"].state = "BIT_READ_START"
  /\ gemini["B"].lastBitReadTime = now
  /\ gemini["B"].byte_counter = 0
  /\ ~gemini["B"].start_bit
  /\ app.second
  /\ Len(app.tail) > 1
  /\ Len(app.tx) = 1
  /\ gemini["B"].pInputData[1] = app.tx[1]

\* peer p takes an edge: IDLE to BIT_READ_START or BIT_WRITE_WAIT_ACK to
\* BIT_WRITE_END
TakesEdge(p) ==
  \/ gemini[p].state = "IDLE" /\ gemini'[p].state = "BIT_READ_START"
  \/ gemini[p].state = "BIT_WRITE_WAIT_ACK"
     /\ gemini'[p].state = "BIT_WRITE_END"

\* C21: with one initiator, every rising edge of the other peer makes
\* exactly one transition of p. No edge is lost: an edge is produced only
\* when the one before was taken, the interrupt handler turns each edge into
\* the edge flag, and the flag is cleared only by a transition that takes
\* the edge. No edge is taken twice: each such transition finds the flag
\* set and clears it.
EdgeHandoff ==
  [][\A p \in Peers :
       /\ (~outputPin[Other(p)] /\ outputPin'[Other(p)]) =>
            /\ ~intFlag[p] /\ ~inputEdgeDetected[p]
            /\ intFlag'[p]
       /\ (intFlag[p] /\ ~intFlag'[p]) =>
            ~inputEdgeDetected[p] /\ inputEdgeDetected'[p]
       /\ (inputEdgeDetected[p] /\ ~inputEdgeDetected'[p]) => TakesEdge(p)
       /\ TakesEdge(p) =>
            inputEdgeDetected[p] /\ ~inputEdgeDetected'[p]]_vars

\* A took the edge of the acknowledge of B, which had taken the edges of A,
\* and both had bits to send
EdgeHandoffWitness ==
  /\ gemini["A"].state = "BIT_WRITE_END"
  /\ gemini["A"].lastBitReadTime = now
  /\ ~inputEdgeDetected["A"]
  /\ sampled["A"] >= 1
  /\ sampled["B"] >= 2
  /\ gemini["A"].inputBuffer.count >= 1
  /\ gemini["A"].inputBuffer.buffer[0]

\* C23: the bits a peer drives when it enters BIT_WRITE_WAIT_ACK are the
\* bits send() accepted, in their order, each once and none skipped: every
\* entry into BIT_WRITE_WAIT_ACK removes the oldest bit of the output FIFO
\* and drives the line to its value, send() adds a bit at the other end,
\* and nothing else changes the output FIFO
OutboundOrder ==
  [][\A p \in Peers :
       LET old == Contents(gemini[p].outputBuffer)
           new == Contents(gemini'[p].outputBuffer)
       IN IF gemini'[p].state = "BIT_WRITE_WAIT_ACK"
             /\ gemini[p].state /= "BIT_WRITE_WAIT_ACK"
            THEN /\ old /= <<>>
                 /\ new = Tail(old)
                 /\ outputPin'[p] = Head(old)
            ELSE \/ new = old
                 \/ \E bit \in BOOLEAN :
                      Send(p, bit) /\ new = Append(old, bit)]_vars

\* A drives the second of its bits, unequal to the first, after B drove
\* its bit
OutboundOrderWitness ==
  /\ gemini["A"].state = "BIT_WRITE_WAIT_ACK"
  /\ gemini["A"].outputBuffer.head = 2
  /\ gemini["A"].outputBuffer.buffer[0] /= gemini["A"].outputBuffer.buffer[1]
  /\ outputPin["A"] = gemini["A"].outputBuffer.buffer[1]
  /\ gemini["B"].outputBuffer.head = 1

\* ------------------------------------------------------------------------
\* C24  Outbound liveness: on the initiator-capable channel, with a peer
\* that acknowledges every bit and update() called again and again on both
\* sides, whenever the outbound FIFO holds bits accepted by send() it
\* becomes empty later on: every accepted bit is driven on the line.
\* ------------------------------------------------------------------------
OutboundLive ==
  (gemini["A"].canBeInitiator /\ ~empty(gemini["A"].outputBuffer))
    ~> empty(gemini["A"].outputBuffer)

\* A is Idle again with an empty outbound FIFO after B sampled every bit
\* the caller of A sent
OutboundLiveWitness ==
  /\ app.scn = "live"
  /\ app.budget = 0
  /\ sampled["B"] = LiveBits
  /\ gemini["A"].state = "IDLE"
  /\ empty(gemini["A"].outputBuffer)
  /\ gemini["A"].outputBuffer.head = LiveBits

\* ------------------------------------------------------------------------
\* C26  Blocking receiveByte: receiveByte(true) leaves its while loop only
\* when 8 inbound bits are available, and then returns the 8 oldest as a
\* byte; while it waits only the bit-level state machine advances, the frame
\* layer of the object stands still; it returns if the peer delivers 8
\* bits, and it never returns if the peer delivers fewer than 8 bits.
\* ------------------------------------------------------------------------
BlockingReceive ==
  /\ [][LET g == gemini["B"]
        IN /\ (app.call = "receiveByte" /\ app'.call /= "receiveByte") =>
                /\ sampled["B"] >= 8
                /\ size(g.inputBuffer) >= 8
           /\ (app.call /= "returned" /\ app'.call = "returned") =>
                /\ app'.rx = ByteOf(app.pre)
                /\ Contents(g.inputBuffer) = SubSeq(app.pre, 9, Len(app.pre))
           /\ Blocked("B")' =>
                /\ gemini'["B"].frameState = g.frameState
                /\ gemini'["B"].byte_counter = g.byte_counter
                /\ gemini'["B"].start_bit = g.start_bit
                /\ gemini'["B"].frameTimeoutCounter = g.frameTimeoutCounter
                /\ gemini'["B"].pInputData = g.pInputData]_vars
  /\ [](Len(app.tail) < 8 => app.call \in {"none", "receiveByte"})
  /\ (app.call = "receiveByte" /\ app.sent /\ Len(app.tail) >= 8)
       ~> (app.call = "returned")

\* receiveByte(true) was called before the session and has returned the
\* byte A sent: the bit level saw the session, the frame layer did not
BlockingReceiveWitness ==
  /\ app.scn = "block"
  /\ app.call = "returned"
  /\ app.rx = BlockByte
  /\ gemini["B"].frameState = "WAIT_FRAME_START"
  /\ ~gemini["B"].frameEndDetected
  /\ empty(gemini["B"].inputBuffer)

\* ------------------------------------------------------------------------
\* C28  execute() sends one control frame at a time: the request flag set
\* by execute() is cleared only by an update() that finds the frame-end
\* flag set and the outbound FIFO empty; that update() queues the control
\* buffer as one frame of 5 sub-frames (45 bits: a 1 and the eight bits of
\* each byte) and nothing else, and leaves the control buffer cleared; no
\* other step of the object adds bits to the outbound FIFO.
\* ------------------------------------------------------------------------
OneControlFrame ==
  [][LET g == gemini["A"]
         h == gemini'["A"]
         old == Contents(g.outputBuffer)
         new == Contents(h.outputBuffer)
     IN /\ (g.outputQueued /\ ~h.outputQueued) =>
             /\ g.frameEndDetected
             /\ old = <<>>
             /\ Len(new) = 45
             /\ new = FrameBits(g.controlBuffer)
             /\ h.controlBuffer = <<0, 0, 0, 0, 0>>
        /\ Len(new) > Len(old) => g.outputQueued /\ ~h.outputQueued
        /\ h.controlBuffer /= g.controlBuffer =>
             g.outputQueued /\ ~h.outputQueued]_vars

\* execute() was called twice while the bit queued before was on its way;
\* update() has queued the control frame, once, after B had sampled that bit
\* and the frame end was detected
OneControlFrameWitness ==
  /\ app.scn = "control"
  /\ app.calls = 2
  /\ sampled["B"] = 1
  /\ gemini["A"].state = "IDLE"
  /\ ~gemini["A"].outputQueued
  /\ Contents(gemini["A"].outputBuffer) = FrameBits(ExampleFrame)
  /\ gemini["A"].controlBuffer = <<0, 0, 0, 0, 0>>

\* ------------------------------------------------------------------------
\* C31  Write index bound: with a frame buffer of length L bound, the write
\* index byte_counter is within 0..L in every state, it only ever moves up
\* by one, and every step that writes a byte of the frame buffer or moves
\* the index up starts with the index below L, whatever the sender sends and
\* whenever getFrame() and resetFrame() are called.
\* ------------------------------------------------------------------------
WriteIndexBound ==
  /\ [](\A p \in Peers :
          hasInputBuffer(gemini[p]) =>
            /\ gemini[p].byte_counter >= 0
            /\ gemini[p].byte_counter <= gemini[p].pInputData_len
            /\ Len(gemini[p].pInputData) = gemini[p].pInputData_len)
  /\ [][\A p \in Peers :
          LET g == gemini[p]
              h == gemini'[p]
          IN (hasInputBuffer(g) /\
              (h.byte_counter > g.byte_counter \/ h.pInputData /= g.pInputData))
               => /\ g.byte_counter < g.pInputData_len
                  /\ h.byte_counter = g.byte_counter + 1
                  /\ \A i \in 1..g.pInputData_len :
                       i /= g.byte_counter + 1 =>
                         h.pInputData[i] = g.pInputData[i]]_vars

\* the buffer of B is full, index at L, and the data bits of a further
\* sub-frame have gone by
WriteIndexBoundWitness ==
  /\ app.scn = "over"
  /\ gemini["B"].byte_counter = gemini["B"].pInputData_len
  /\ gemini["B"].pInputData = <<app.tx[1]>>
  /\ sampled["B"] >= 18
  /\ ~app.gotten
  /\ app.calls = 0

\* ------------------------------------------------------------------------
\* C32  Draining a complete frame: an update() that starts in
\* WAIT_FRAME_DATA with a buffer bound and frameComplete() true ends with
\* the inbound FIFO empty, whatever it held and whatever bit the update
\* itself sampled, and with the bytes of the frame buffer, the write index
\* and the timeout counter as they were.
\* ------------------------------------------------------------------------
DrainComplete ==
  [][\A p \in Peers :
       LET g == gemini[p]
           h == gemini'[p]
       IN (/\ pc'[p] = "loop" /\ since[p] > 0 /\ since'[p] = 0
           /\ hasInputBuffer(g)
           /\ g.frameState = "WAIT_FRAME_DATA"
           /\ frameComplete(g))
            => /\ empty(h.inputBuffer)
               /\ h.pInputData = g.pInputData
               /\ h.byte_counter = g.byte_counter
               /\ h.frameTimeoutCounter = g.frameTimeoutCounter]_vars

\* the frame of B is complete and not fetched, B has sampled the start bit
\* of the sub-frame that follows, and the update() that sampled it has
\* left the FIFO empty and the frame as it was
DrainCompleteWitness ==
  /\ app.scn = "over"
  /\ pc["B"] = "loop"
  /\ gemini["B"].frameState = "WAIT_FRAME_DATA"
  /\ frameComplete(gemini["B"])
  /\ sampled["B"] = gemini["B"].pInputData_len * 9 + 1
  /\ empty(gemini["B"].inputBuffer)
  /\ gemini["B"].pInputData = <<app.tx[1]>>
  /\ gemini["B"].frameTimeoutCounter = 0
  /\ ~app.gotten
  /\ app.calls = 0

\* ------------------------------------------------------------------------
\* C36  Inbound FIFO stays small under GeminiFrame: with a frame buffer
\* bound, the inbound FIFO empty at begin() and update() the only consumer
\* of its bits, the FIFO holds at most 8 bits whenever an update() has
\* returned, it is never full, and every bit sampled is stored at its end.
\* ------------------------------------------------------------------------
InputFifoSmall ==
  /\ [](\A p \in Peers :
          hasInputBuffer(gemini[p]) =>
            /\ pc[p] = "loop" => size(gemini[p].inputBuffer) <= 8
            /\ ~full(gemini[p].inputBuffer))
  /\ [][\A p \in Peers :
          (hasInputBuffer(gemini[p]) /\ sampled'[p] = sampled[p] + 1 /\
           pc'[p] /= "loop")
            => Len(Contents(gemini'[p].inputBuffer)) =
                 Len(Contents(gemini[p].inputBuffer)) + 1]_vars

\* seven data bits of a sub-frame wait in the FIFO of B for the eighth,
\* after an update() of B
InputFifoSmallWitness ==
  /\ app.scn = "over"
  /\ pc["B"] = "loop"
  /\ gemini["B"].frameState = "WAIT_FRAME_DATA"
  /\ gemini["B"].start_bit
  /\ size(gemini["B"].inputBuffer) = 7
  /\ sampled["B"] = 8

\* ------------------------------------------------------------------------
\* C35  Frame-end implies Idle: in every state after begin(), whatever
\* value setFrameTimeout() was given, a peer whose frameEndDetected is set
\* is in State::IDLE.
\* ------------------------------------------------------------------------
FrameEndIdle ==
  \A p \in Peers : gemini[p].frameEndDetected => gemini[p].state = "IDLE"

\* ------------------------------------------------------------------------
\* C37  Inbound overflow is silent: an update() that samples a bit in
\* BIT_READ_START while the inbound FIFO is full leaves that FIFO as it was,
\* and everything else it does (the object, the output pin, the pulse it
\* starts, the edge flag) is what the same update() does when the FIFO has
\* room for the bit.
\* ------------------------------------------------------------------------
SilentOverflow ==
  [][\A p \in Peers :
       LET g == gemini[p]
           h == gemini'[p]
           room == [g EXCEPT !.inputBuffer = pull(@).f]
           r == protocolUpdate(room, inputEdgeDetected[p], outputPin[p], now,
                               outputPin[Other(p)])
           stored == IF r.pc = "loop" THEN frameUpdate(r.g, now) ELSE r.g
       IN (sampled'[p] = sampled[p] + 1 /\ full(g.inputBuffer))
            => /\ h.inputBuffer = g.inputBuffer
               /\ Len(Contents(stored.inputBuffer)) = FIFO_SIZE
               /\ [h EXCEPT !.inputBuffer = boolFifo] =
                    [stored EXCEPT !.inputBuffer = boolFifo]
               /\ outputPin'[p] = r.pin
               /\ pc'[p] = r.pc
               /\ inputEdgeDetected'[p] = r.edge]_vars

\* B has sampled a bit with its inbound FIFO full: the FIFO holds what it
\* held at the start and B is in the pulse of its acknowledge
SilentOverflowWitness ==
  /\ app.scn = "full"
  /\ Len(app.pre) = FIFO_SIZE
  /\ sampled["B"] = 1
  /\ Contents(gemini["B"].inputBuffer) = app.pre
  /\ pc["B"] = "PULSE_ACK"
  /\ outputPin["B"]

\* ------------------------------------------------------------------------
\* C38  Raw mode: for a peer set up with begin() without a frame buffer,
\* frameComplete() is true in every state, no step takes a bit out of its
\* inbound FIFO or writes a frame byte or moves the write index, and each
\* update() moves the frame state by the frame-end flag as it does with a
\* buffer: WAIT_FRAME_START to WAIT_FRAME_DATA when the flag is clear,
\* WAIT_FRAME_DATA to FRAME_END and FRAME_END to WAIT_FRAME_START when it
\* is set.
\* ------------------------------------------------------------------------
RawMode ==
  /\ [](\A p \in Peers :
          ~hasInputBuffer(gemini[p]) => frameComplete(gemini[p]))
  /\ [][\A p \in Peers :
          LET g == gemini[p]
              h == gemini'[p]
              old == Contents(g.inputBuffer)
              new == Contents(h.inputBuffer)
              flag == h.frameEndDetected
          IN ~hasInputBuffer(g) =>
               /\ Len(new) >= Len(old)
               /\ SubSeq(new, 1, Len(old)) = old
               /\ h.pInputData = NULL
               /\ h.byte_counter = g.byte_counter
               /\ h.frameState =
                    IF pc'[p] = "loop" /\ since[p] > 0 /\ since'[p] = 0
                      THEN CASE g.frameState = "WAIT_FRAME_START" ->
                                  IF flag THEN "WAIT_FRAME_START"
                                          ELSE "WAIT_FRAME_DATA"
                             [] g.frameState = "WAIT_FRAME_DATA" ->
                                  IF flag THEN "FRAME_END"
                                          ELSE "WAIT_FRAME_DATA"
                             [] g.frameState = "FRAME_END" ->
                                  IF flag THEN "WAIT_FRAME_START"
                                          ELSE "FRAME_END"
                      ELSE g.frameState]_vars

\* B, without a frame buffer, has gone through a session to FRAME_END and
\* every bit it sampled is still in its inbound FIFO
RawModeWitness ==
  /\ app.scn = "live"
  /\ ~hasInputBuffer(gemini["B"])
  /\ gemini["B"].frameState = "FRAME_END"
  /\ sampled["B"] = LiveBits
  /\ size(gemini["B"].inputBuffer) = sampled["B"]

\* ------------------------------------------------------------------------
\* C39  Clock wrap: the deadline tests on currentTime - lastBitReadTime
\* (sample delay, hold time, frame timeout in update() and in
\* checkFrameTimeout()) give, in every state before and after the wrap of
\* micros(), the result of comparing the true time elapsed since
\* lastBitReadTime was set with the configured duration.
\* ------------------------------------------------------------------------
\* microseconds from the start to the clock value x, counted without
\* modular arithmetic: the start is in the last 2^16 ticks before the wrap
\* and x less than 2^16 ticks after the start, or before the start and
\* after the start of those 2^16 ticks
SinceStart(x) ==
  IF x[1] = HALF - 1 THEN x[2] - t0[2] ELSE x[2] + (HALF - t0[2])

ClockWrap ==
  \A p \in Peers :
    LET g == gemini[p]
        trueElapsed == SinceStart(now) - SinceStart(g.lastBitReadTime)
    IN /\ trueElapsed >= 0
       /\ readDue(g, now) <=> trueElapsed >= readDelayMicros
       /\ writeDue(g, now) <=> trueElapsed >= writeDelayMicros
       /\ frameTimeoutDue(g, now) <=> trueElapsed >= g.frameTimeout
       /\ checkFrameTimeout(g, now) <=> trueElapsed >= g.frameTimeout

\* the clock has wrapped, B set lastBitReadTime before the wrap, and the
\* frame timeout of the session is due
ClockWrapWitness ==
  /\ app.scn = "wrap"
  /\ now[1] = 0
  /\ gemini["B"].lastBitReadTime[1] = HALF - 1
  /\ gemini["B"].state = "IDLE"
  /\ ~gemini["B"].frameEndDetected
  /\ sampled["B"] >= 1
  /\ frameTimeoutDue(gemini["B"], now)

\* ------------------------------------------------------------------------
\* C33  No frame is skipped: the receiver has a buffer of L bytes and its
\* caller calls getFrame() when frameComplete() is true; a session that
\* starts after both peers saw the frame timeout of the session before and
\* that brings the 9*L bits of L sub-frames has made frameComplete() true
\* once the receiver has handled its last bit, wherever the first edge of
\* the session falls between the update() calls of the receiver.
\* ------------------------------------------------------------------------
NoFrameSkipped ==
  (/\ app.scn = "skip"
   /\ app.second
   /\ sampled["A"] = 1 + 9 * gemini["A"].pInputData_len
   /\ pc["A"] = "loop"
   /\ gemini["A"].state = "IDLE")
    => frameComplete(gemini["A"]) \/ app.gotten

\* ------------------------------------------------------------------------
\* C34  serverStartup() terminates: once it has queued its 9 bits, with a
\* peer that acknowledges every bit, interrupts served and the clock
\* running, the loop while (hasData(9) == false) update() ends and the
\* function returns true.
\* ------------------------------------------------------------------------
StartupTerminates ==
  (app.call = "serverStartup") ~> (app.call = "returned" /\ app.ret)

=============================================================================
